---------------------------- MODULE Spec2Model ----------------------------
(***************************************************************************)
(* EduCalc backend: the POST /calculate request path.                      *)
(*                                                                         *)
(*   routes/calculate.py   calculate            (the HTTP handler)         *)
(*   utils.py              sanitize_expression, log_calculation            *)
(*   calculator_engine.py  CalculatorEngine, format_number                 *)
(*                                                                         *)
(* Text is modelled as it is in the program: a Python str is a sequence of *)
(* one-character strings, so that substring tests, strip, split and the    *)
(* digit-by-digit conversions are computed, not assumed.                   *)
(***************************************************************************)
EXTENDS Integers, Sequences, FiniteSets, TLC

VARIABLES
    pc,         \* "idle": no request in flight; "received": a request waits for the
                \* handler of /calculate; "responded": that handler has answered;
                \* "validating", "validated": the same for /validate
    request,    \* the CalculationRequest or ValidationRequest being served
    library,    \* what the symbolic library answers for this request (solve, expand, ...)
    fault,      \* an exception the code does not raise itself (MemoryError, ...), or None
    engine,     \* what CalculatorEngine.calculate was called with and what it did
    response,   \* the HTTP answer: status and body
    log,        \* the record log_calculation wrote for this request
    engines,    \* the module-level CalculatorEngine of each route module
    rate_limiter,   \* the module-level RateLimiter of utils
    auth_service,   \* the module-level AuthService of auth
    call        \* the last direct call of a method of rate_limiter or auth_service

vars == <<pc, request, library, fault, engine, response, log, engines, rate_limiter,
          auth_service, call>>

(***************************************************************************)
(* Python str operations                                                   *)
(***************************************************************************)

Digit == {"0", "1", "2", "3", "4", "5", "6", "7", "8", "9"}

LowerLetter == {"a", "b", "c", "d", "e", "f", "g", "h", "i", "j", "k", "l", "m",
                "n", "o", "p", "q", "r", "s", "t", "u", "v", "w", "x", "y", "z"}

UpperLetter == {"A", "B", "C", "D", "E", "F", "G", "H", "I", "J", "K", "L", "M",
                "N", "O", "P", "Q", "R", "S", "T", "U", "V", "W", "X", "Y", "Z"}

\* str.lower() on one character
LowerChar(c) ==
    CASE c = "A" -> "a" [] c = "B" -> "b" [] c = "C" -> "c" [] c = "D" -> "d"
      [] c = "E" -> "e" [] c = "F" -> "f" [] c = "G" -> "g" [] c = "H" -> "h"
      [] c = "I" -> "i" [] c = "J" -> "j" [] c = "K" -> "k" [] c = "L" -> "l"
      [] c = "M" -> "m" [] c = "N" -> "n" [] c = "O" -> "o" [] c = "P" -> "p"
      [] c = "Q" -> "q" [] c = "R" -> "r" [] c = "S" -> "s" [] c = "T" -> "t"
      [] c = "U" -> "u" [] c = "V" -> "v" [] c = "W" -> "w" [] c = "X" -> "x"
      [] c = "Y" -> "y" [] c = "Z" -> "z" [] OTHER -> c

\* str.upper() on one character
UpperChar(c) ==
    CASE c = "a" -> "A" [] c = "b" -> "B" [] c = "c" -> "C" [] c = "d" -> "D"
      [] c = "e" -> "E" [] c = "f" -> "F" [] c = "g" -> "G" [] c = "h" -> "H"
      [] c = "i" -> "I" [] c = "j" -> "J" [] c = "k" -> "K" [] c = "l" -> "L"
      [] c = "m" -> "M" [] c = "n" -> "N" [] c = "o" -> "O" [] c = "p" -> "P"
      [] c = "q" -> "Q" [] c = "r" -> "R" [] c = "s" -> "S" [] c = "t" -> "T"
      [] c = "u" -> "U" [] c = "v" -> "V" [] c = "w" -> "W" [] c = "x" -> "X"
      [] c = "y" -> "Y" [] c = "z" -> "Z" [] OTHER -> c

\* str.lower()
Lower(s) == [i \in 1..Len(s) |-> LowerChar(s[i])]

\* str.upper()
Upper(s) == [i \in 1..Len(s) |-> UpperChar(s[i])]

\* s[i:j] with Python's 0-based, end-exclusive indices
Slice(s, i, j) == IF j <= i THEN <<>> ELSE SubSeq(s, i + 1, j)

\* s.startswith(sub)
StartsWith(s, sub) == Len(sub) <= Len(s) /\ SubSeq(s, 1, Len(sub)) = sub

\* the 0-based positions at which sub occurs in s
Occurrences(s, sub) ==
    {i \in 0..(Len(s) - Len(sub)) : SubSeq(s, i + 1, i + Len(sub)) = sub}

\* sub in s
Contains(s, sub) == Occurrences(s, sub) # {}

Min(S) == CHOOSE m \in S : \A n \in S : m <= n

Max(S) == CHOOSE m \in S : \A n \in S : n <= m

\* s.find(sub): the first position, or -1
Find(s, sub) == IF Contains(s, sub) THEN Min(Occurrences(s, sub)) ELSE -1

\* s.rfind(sub): the last position, or -1
RFind(s, sub) == IF Contains(s, sub) THEN Max(Occurrences(s, sub)) ELSE -1

\* s.count(c) for a one-character c
Count(s, c) == Cardinality({i \in 1..Len(s) : s[i] = c})

\* s.replace(c, "") for a one-character c
Remove(s, c) == SelectSeq(s, LAMBDA ch : ch # c)

\* s.isdigit()
IsDigit(s) == Len(s) > 0 /\ \A i \in 1..Len(s) : s[i] \in Digit

\* the characters str.strip() removes (the model's texts hold no other blank)
Whitespace == {" "}

RECURSIVE LStrip(_)
LStrip(s) == IF s # <<>> /\ Head(s) \in Whitespace THEN LStrip(Tail(s)) ELSE s

RECURSIVE RStrip(_)
RStrip(s) ==
    IF s # <<>> /\ s[Len(s)] \in Whitespace THEN RStrip(SubSeq(s, 1, Len(s) - 1)) ELSE s

\* str.strip()
Strip(s) == RStrip(LStrip(s))

\* s.split(sep): the parts between the occurrences of sep, left to right
RECURSIVE Split(_, _)
Split(s, sep) ==
    IF Contains(s, sep)
    THEN LET i == Find(s, sep)
         IN  <<Slice(s, 0, i)>> \o Split(Slice(s, i + Len(sep), Len(s)), sep)
    ELSE <<s>>

\* the concatenation of a sequence of texts
RECURSIVE Concat(_)
Concat(parts) == IF parts = <<>> THEN <<>> ELSE Head(parts) \o Concat(Tail(parts))


(***************************************************************************)
(* utils.py                                                                *)
(***************************************************************************)

\* the list `forbidden` of sanitize_expression, in its order
Forbidden ==
    << <<"_", "_">>,
       <<"i", "m", "p", "o", "r", "t">>,
       <<"e", "x", "e", "c">>,
       <<"e", "v", "a", "l">>,
       <<"c", "o", "m", "p", "i", "l", "e">>,
       <<"o", "p", "e", "n">>,
       <<"f", "i", "l", "e">>,
       <<"i", "n", "p", "u", "t">>,
       <<"r", "a", "w", "_", "i", "n", "p", "u", "t">>,
       <<"e", "x", "e", "c", "f", "i", "l", "e">>,
       <<"r", "e", "l", "o", "a", "d">>,
       <<"g", "l", "o", "b", "a", "l", "s">>,
       <<"l", "o", "c", "a", "l", "s">> >>

\* a raised exception: its class and what str(e) shows
Raise(cls, kind, arg) == [ok |-> FALSE, cls |-> cls, message |-> [kind |-> kind, arg |-> arg]]

\* a returned value
Return(v) == [ok |-> TRUE, value |-> v]

\* [p.strip() for p in expression.split(',') if p.strip()]
CommaParts(expression) ==
    LET raw == Split(expression, <<",">>)
        stripped == [i \in 1..Len(raw) |-> Strip(raw[i])]
    IN  SelectSeq(stripped, LAMBDA p : p # <<>>)

\* the first word of `forbidden` found in the expression as it is written
FirstForbiddenAsWritten(expression) ==
    LET hits == {i \in 1..Len(Forbidden) : Contains(expression, Forbidden[i])}
    IN  IF hits = {} THEN <<>> ELSE Forbidden[Min(hits)]

\* the first word of `forbidden` found in expression.lower(), or <<>>
FirstForbidden(expression) ==
    LET expression_lower == Lower(expression)
        hits == {i \in 1..Len(Forbidden) : Contains(expression_lower, Forbidden[i])}
    IN  IF hits = {} THEN <<>> ELSE Forbidden[Min(hits)]

\* s without the occurrences of word, whatever their case
RECURSIVE Without(_, _)
Without(s, word) ==
    IF s = <<>> THEN <<>>
    ELSE IF StartsWith(Lower(s), word) THEN Without(Slice(s, Len(word), Len(s)), word)
    ELSE <<s[1]>> \o Without(Tail(s), word)

RECURSIVE WithoutAll(_, _)
WithoutAll(s, words) ==
    IF words = <<>> THEN s ELSE WithoutAll(Without(s, words[1]), Tail(words))

\* a sanitizer that takes the forbidden words out and returns what is left
sanitize_removing(raw) == Return(WithoutAll(Strip(raw), Forbidden))

\* sanitize_expression: strip, refuse several comma-separated parts, refuse a
\* forbidden word, return the stripped text
sanitize_expression(raw) ==
    LET expression == Strip(raw)
    IN  IF Contains(expression, <<",">>) /\ Len(CommaParts(expression)) > 1
        THEN Raise("ValueError", "comma", CommaParts(expression))
        ELSE IF FirstForbidden(expression) # <<>>
             THEN Raise("ValueError", "forbidden", FirstForbidden(expression))
             ELSE Return(expression)

\* log_calculation: the record handed to the logger
log_calculation(expression, mode, success, error) ==
    [expression |-> expression, mode |-> mode, success |-> success, error |-> error]

(***************************************************************************)
(* Numbers.  Python int and SymPy Integer are unbounded and a Python float *)
(* is an IEEE-754 double, so an integer is kept as a sign and two limbs of *)
(* nine decimal digits: 2^53, where a double stops holding every integer,  *)
(* is within range.                                                        *)
(***************************************************************************)

Limb == 10^9

\* the integer with magnitude hi * Limb + lo
Wide(neg, hi, lo) == [neg |-> neg /\ (hi # 0 \/ lo # 0), hi |-> hi, lo |-> lo]

\* a small integer as a wide one
ToWide(n) == IF n < 0 THEN Wide(TRUE, (-n) \div Limb, (-n) % Limb)
                      ELSE Wide(FALSE, n \div Limb, n % Limb)

\* whether a wide integer fits the model's small range
IsSmall(w) == w.hi = 0

\* a small wide integer as an integer
ToInt(w) == IF w.neg THEN -(w.lo) ELSE w.lo

WZero == Wide(FALSE, 0, 0)

\* |a| < |b|
MagLess(a, b) == a.hi < b.hi \/ (a.hi = b.hi /\ a.lo < b.lo)

\* |a| + |b| with sign neg
MagAdd(neg, a, b) ==
    LET lo == a.lo + b.lo
    IN  Wide(neg, a.hi + b.hi + (lo \div Limb), lo % Limb)

\* |a| - |b| with sign neg, for |a| >= |b|
MagSub(neg, a, b) ==
    IF a.lo >= b.lo THEN Wide(neg, a.hi - b.hi, a.lo - b.lo)
                    ELSE Wide(neg, a.hi - b.hi - 1, a.lo + Limb - b.lo)

WNeg(a) == Wide(~a.neg, a.hi, a.lo)

\* exact integer addition
WAdd(a, b) ==
    IF a.neg = b.neg THEN MagAdd(a.neg, a, b)
    ELSE IF MagLess(a, b) THEN MagSub(b.neg, b, a)
    ELSE MagSub(a.neg, a, b)

\* 2^53 and 2^54 as wide integers
Two53 == Wide(FALSE, 9007199, 254740992)

Two54 == Wide(FALSE, 18014398, 509481984)

\* float(n) for an integer n: below 2^53 every integer is a double; from 2^53 to
\* 2^54 the doubles are the multiples of 2 and from 2^54 to 2^55 the multiples
\* of 4; a tie rounds to the neighbour whose mantissa is even.  Limb is a
\* multiple of 8, so n modulo 8 is lo modulo 8.  The model stays below 2^55.
RoundToDouble(w) ==
    IF MagLess(w, Two53) THEN w
    ELSE IF MagLess(w, Two54)
         THEN (IF w.lo % 2 = 0 THEN w
               ELSE IF w.lo % 4 = 1 THEN MagSub(w.neg, w, ToWide(1))
               ELSE MagAdd(w.neg, w, ToWide(1)))
    ELSE CASE w.lo % 4 = 0 -> w
           [] w.lo % 4 = 1 -> MagSub(w.neg, w, ToWide(1))
           [] w.lo % 4 = 3 -> MagAdd(w.neg, w, ToWide(1))
           [] w.lo % 8 = 2 -> MagSub(w.neg, w, ToWide(2))
           [] w.lo % 8 = 6 -> MagAdd(w.neg, w, ToWide(2))

DigitChar(d) ==
    CASE d = 0 -> "0" [] d = 1 -> "1" [] d = 2 -> "2" [] d = 3 -> "3" [] d = 4 -> "4"
      [] d = 5 -> "5" [] d = 6 -> "6" [] d = 7 -> "7" [] d = 8 -> "8" [] d = 9 -> "9"

DigitValue(c) ==
    CASE c = "0" -> 0 [] c = "1" -> 1 [] c = "2" -> 2 [] c = "3" -> 3 [] c = "4" -> 4
      [] c = "5" -> 5 [] c = "6" -> 6 [] c = "7" -> 7 [] c = "8" -> 8 [] c = "9" -> 9

\* str(n) for a natural number n
RECURSIVE NatText(_)
NatText(n) == IF n < 10 THEN <<DigitChar(n)>> ELSE NatText(n \div 10) \o <<DigitChar(n % 10)>>

\* the natural number written by at most nine digits
RECURSIVE NatValue(_)
NatValue(ds) ==
    IF ds = <<>> THEN 0
    ELSE NatValue(SubSeq(ds, 1, Len(ds) - 1)) * 10 + DigitValue(ds[Len(ds)])

\* n written with exactly nine digits
RECURSIVE PadNine(_)
PadNine(ds) == IF Len(ds) >= 9 THEN ds ELSE PadNine(<<"0">> \o ds)

\* str(n) for an integer n
IntText(w) ==
    (IF w.neg THEN <<"-">> ELSE <<>>)
        \o (IF w.hi = 0 THEN NatText(w.lo) ELSE NatText(w.hi) \o PadNine(NatText(w.lo)))

\* the integer written by a digit string (of at most eighteen digits)
DigitsValue(ds) ==
    IF Len(ds) <= 9 THEN Wide(FALSE, 0, NatValue(ds))
    ELSE Wide(FALSE, NatValue(SubSeq(ds, 1, Len(ds) - 9)),
                     NatValue(SubSeq(ds, Len(ds) - 8, Len(ds))))



(***************************************************************************)
(* Values of the symbolic library (SymPy) and of Python float arithmetic.  *)
(*   "int"  an integer                      w                              *)
(*   "rat"  a non-integer rational n/d      n, d (d > 1, lowest terms)     *)
(*   "zoo"  complex infinity (x/0)          "nan" not a number (0/0)       *)
(*   "irr"  a number with no exact text here (a decimal literal, a root)   *)
(*   "sym"  an expression with free symbols free                           *)
(*   "big"  a number outside the range the model computes                  *)
(***************************************************************************)

Val(k, w, n, d, free) == [k |-> k, w |-> w, n |-> n, d |-> d, free |-> free]

IntV(w) == Val("int", w, 0, 1, {})

ZooV == Val("zoo", WZero, 0, 1, {})

NanV == Val("nan", WZero, 0, 1, {})

IrrV == Val("irr", WZero, 0, 1, {})

BigV == Val("big", WZero, 0, 1, {})

SymV(free) == Val("sym", WZero, 0, 1, free)

RECURSIVE Gcd(_, _)
Gcd(a, b) == IF b = 0 THEN a ELSE Gcd(b, a % b)

Abs(n) == IF n < 0 THEN -n ELSE n

\* the largest magnitude the model multiplies without leaving its range
SmallLimit == 2^15

\* the rational n/d in lowest terms, an "int" when it is whole
RatV(n, d) ==
    LET g == Gcd(Abs(n), Abs(d))
        nn == (IF d < 0 THEN -n ELSE n) \div g
        dd == Abs(d) \div g
    IN  IF dd = 1 THEN IntV(ToWide(nn)) ELSE Val("rat", WZero, nn, dd, {})

IsExact(v) == v.k \in {"int", "rat"}

\* whether an exact value is within the range the model multiplies and divides
InRange(v) ==
    \/ v.k = "int" /\ IsSmall(v.w) /\ v.w.lo < SmallLimit
    \/ v.k = "rat" /\ Abs(v.n) < SmallLimit /\ v.d < SmallLimit

\* numerator and denominator of an exact value in range
NumOf(v) == IF v.k = "int" THEN ToInt(v.w) ELSE v.n

DenOf(v) == IF v.k = "int" THEN 1 ELSE v.d

IsZero(v) == v.k = "int" /\ v.w = WZero

\* the kinds that are not exact, in the order they absorb
Inexact(a, b, exact) ==
    IF a.k = "nan" \/ b.k = "nan" THEN NanV
    ELSE IF a.k = "sym" \/ b.k = "sym" THEN SymV(a.free \cup b.free)
    ELSE IF a.k = "zoo" \/ b.k = "zoo" THEN ZooV
    ELSE IF a.k = "big" \/ b.k = "big" THEN BigV
    ELSE IF a.k = "irr" \/ b.k = "irr" THEN IrrV
    ELSE exact

VNeg(a) ==
    IF a.k = "int" THEN IntV(WNeg(a.w))
    ELSE IF a.k = "rat" THEN Val("rat", WZero, -a.n, a.d, {})
    ELSE a

VAdd(a, b) ==
    IF a.k = "zoo" /\ b.k = "zoo" THEN NanV
    ELSE Inexact(a, b,
            IF a.k = "int" /\ b.k = "int" THEN IntV(WAdd(a.w, b.w))
            ELSE IF InRange(a) /\ InRange(b)
                 THEN RatV(NumOf(a) * DenOf(b) + NumOf(b) * DenOf(a), DenOf(a) * DenOf(b))
                 ELSE BigV)

VSub(a, b) == VAdd(a, VNeg(b))

VMul(a, b) ==
    IF (a.k = "zoo" /\ IsZero(b)) \/ (IsZero(a) /\ b.k = "zoo") THEN NanV
    ELSE Inexact(a, b,
            IF InRange(a) /\ InRange(b)
            THEN RatV(NumOf(a) * NumOf(b), DenOf(a) * DenOf(b))
            ELSE BigV)

VDiv(a, b) ==
    IF IsZero(b) THEN (IF IsZero(a) \/ a.k = "nan" THEN NanV ELSE ZooV)
    ELSE IF b.k = "zoo" THEN (IF a.k \in {"zoo", "nan"} THEN NanV
                              ELSE IF a.k = "sym" THEN a ELSE IntV(WZero))
    ELSE Inexact(a, b,
            IF InRange(a) /\ InRange(b)
            THEN RatV(NumOf(a) * DenOf(b), DenOf(a) * NumOf(b))
            ELSE BigV)

\* b^e for b >= 0 and e >= 0, or SmallLimit when it reaches SmallLimit
RECURSIVE PowCapped(_, _)
PowCapped(b, e) ==
    IF e = 0 THEN 1
    ELSE IF b <= 1 THEN b
    ELSE IF e >= 15 THEN SmallLimit
    ELSE Min({SmallLimit, b * PowCapped(b, e - 1)})

VPow(a, b) ==
    IF a.k \in {"nan", "sym", "zoo", "big", "irr"} \/ b.k \in {"nan", "sym", "zoo", "big", "irr"}
    THEN (IF b.k = "int" /\ b.w = WZero /\ a.k # "nan" THEN IntV(ToWide(1))
          ELSE Inexact(a, b, BigV))
    ELSE IF b.k = "rat" THEN (IF a = IntV(ToWide(1)) \/ IsZero(a) THEN a ELSE IrrV)
    ELSE IF ~(InRange(a) /\ InRange(b)) THEN BigV
    ELSE LET e == ToInt(b.w)
             pn == PowCapped(Abs(NumOf(a)), Abs(e))
             pd == PowCapped(DenOf(a), Abs(e))
             odd == NumOf(a) < 0 /\ Abs(e) % 2 = 1
             sn == IF odd THEN -pn ELSE pn
         IN  IF pn >= SmallLimit \/ pd >= SmallLimit THEN BigV
             ELSE IF e >= 0 THEN RatV(sn, pd)
             ELSE IF IsZero(a) THEN ZooV
             ELSE RatV(IF odd THEN -pd ELSE pd, pn)



(***************************************************************************)
(* format_number                                                           *)
(***************************************************************************)

\* the digits after the decimal point that f"{num:.10f}" keeps
FormatDecimals == 10

\* the first k decimal digits of r/d, for 0 <= r < d
RECURSIVE DecimalDigits(_, _, _)
DecimalDigits(r, d, k) ==
    IF k = 0 THEN <<>>
    ELSE <<(r * 10) \div d>> \o DecimalDigits((r * 10) % d, d, k - 1)

\* what is left of r/d after its first k decimal digits
RECURSIVE DecimalRest(_, _, _)
DecimalRest(r, d, k) == IF k = 0 THEN r ELSE DecimalRest((r * 10) % d, d, k - 1)

\* a digit sequence plus one; a leading 10 marks the carry out of it
RECURSIVE Increment(_)
Increment(ds) ==
    IF ds = <<>> THEN <<10>>
    ELSE IF ds[Len(ds)] < 9 THEN [ds EXCEPT ![Len(ds)] = @ + 1]
    ELSE LET front == Increment(SubSeq(ds, 1, Len(ds) - 1))
         IN  front \o <<0>>

\* rstrip('0') on a digit sequence
RECURSIVE StripZeros(_)
StripZeros(ds) ==
    IF ds # <<>> /\ ds[Len(ds)] = 0 THEN StripZeros(SubSeq(ds, 1, Len(ds) - 1)) ELSE ds

\* f"{num:.10f}".rstrip('0').rstrip('.') for the non-integer n/d
DecimalText(n, d) ==
    LET q == Abs(n) \div d
        r == Abs(n) % d
        ds == DecimalDigits(r, d, FormatDecimals)
        rest == DecimalRest(r, d, FormatDecimals)
        up == 2 * rest > d \/ (2 * rest = d /\ ds[Len(ds)] % 2 = 1)
        inc == IF up THEN Increment(ds) ELSE ds
        carry == inc[1] = 10
        frac == StripZeros(IF carry THEN Tail(inc) ELSE inc)
        whole == NatText(IF carry THEN q + 1 ELSE q)
    IN  (IF n < 0 THEN <<"-">> ELSE <<>>) \o whole
            \o (IF frac = <<>> THEN <<>>
                ELSE <<".">> \o [i \in 1..Len(frac) |-> DigitChar(frac[i])])

\* str(value) of a value that float() refuses or that int() refuses: SymPy's own
\* printing.  The text of an expression the model does not print is one
\* pseudo-character.
StrOf(v) ==
    CASE v.k = "zoo" -> <<"z", "o", "o">>
      [] v.k = "nan" -> <<"n", "a", "n">>
      [] v.k = "sym" -> <<"<expr>">>
      [] v.k = "irr" -> <<"<decimal>">>
      [] v.k = "big" -> <<"<number>">>
      [] v.k = "obj" -> <<"<function>">>
      [] v.k = "int" -> IntText(v.w)
      [] v.k = "rat" -> IntText(ToWide(v.n)) \o <<"/">> \o NatText(v.d)

\* format_number: float(value); a whole number is printed as str(int(num)), any
\* other with ten decimals and its trailing zeros removed; a value float() or
\* int() refuses is printed as str(value)
format_number(value) ==
    CASE value.k = "int" -> IntText(RoundToDouble(value.w))
      [] value.k = "rat" -> DecimalText(value.n, value.d)
      [] OTHER -> StrOf(value)

(***************************************************************************)
(* sympify: the library's parser, for the texts the model sends it.  The   *)
(* grammar is Python's for numbers, names, + - * / ** and parentheses; a   *)
(* name is a Symbol.  Calls of library functions, '//' and '^' are outside *)
(* the texts the model builds.                                             *)
(***************************************************************************)

NameStart == LowerLetter \cup UpperLetter \cup {"_"}

NameChar == NameStart \cup Digit

\* the length of the longest prefix of s made of characters of S
RECURSIVE Run(_, _)
Run(s, S) == IF s # <<>> /\ Head(s) \in S THEN 1 + Run(Tail(s), S) ELSE 0

Tok(t, text) == [t |-> t, text |-> text]

\* the length of the number literal s begins with: digits, then '.' and digits
NumberLength(s) ==
    LET whole == Run(s, Digit)
        rest == Slice(s, whole, Len(s))
    IN  IF rest # <<>> /\ Head(rest) = "." /\ (whole > 0 \/ Run(Tail(rest), Digit) > 0)
        THEN whole + 1 + Run(Tail(rest), Digit)
        ELSE whole

\* the tokens of a text; a character no token begins with gives a "bad" token.
\* The pseudo-characters of StrOf that stand for a numeral are number tokens.
RECURSIVE Tokenize(_)
Tokenize(s) ==
    IF s = <<>> THEN <<>>
    ELSE IF Head(s) \in Whitespace THEN Tokenize(Tail(s))
    ELSE IF Head(s) \in {"<decimal>", "<number>"}
         THEN <<Tok("num", <<Head(s)>>)>> \o Tokenize(Tail(s))
    ELSE IF NumberLength(s) > 0
         THEN <<Tok("num", Slice(s, 0, NumberLength(s)))>>
                  \o Tokenize(Slice(s, NumberLength(s), Len(s)))
    ELSE IF Head(s) \in NameStart
         THEN <<Tok("name", Slice(s, 0, Run(s, NameChar)))>>
                  \o Tokenize(Slice(s, Run(s, NameChar), Len(s)))
    ELSE IF StartsWith(s, <<"*", "*">>)
         THEN <<Tok("op", <<"*", "*">>)>> \o Tokenize(Slice(s, 2, Len(s)))
    ELSE IF Head(s) \in {"+", "-", "*", "/", "(", ")"}
         THEN <<Tok("op", <<Head(s)>>)>> \o Tokenize(Tail(s))
    ELSE <<Tok("bad", <<Head(s)>>)>>



\* names the library binds to its own functions: such a name alone is a Python
\* function, not an expression
LibraryFunctions == {<<"d", "i", "f", "f">>, <<"i", "n", "t", "e", "g", "r", "a", "t", "e">>}

ObjV == Val("obj", WZero, 0, 1, {})

\* the value of a number literal: an integer, or the decimal it writes; a
\* decimal of more than four digits is a number the model does not compute
NumberValue(text) ==
    IF text = <<"<decimal>">> THEN IrrV
    ELSE IF text = <<"<number>">> THEN BigV
    ELSE IF ~Contains(text, <<".">>) THEN IntV(DigitsValue(text))
    ELSE LET whole == Slice(text, 0, Find(text, <<".">>))
             frac == Slice(text, Find(text, <<".">>) + 1, Len(text))
         IN  IF Len(whole) + Len(frac) > 4 THEN IrrV
             ELSE RatV(NatValue(whole \o frac), 10 ^ Len(frac))

\* Python refuses an integer literal with a leading zero, such as 007
BadLiteral(text) ==
    /\ ~Contains(text, <<".">>)
    /\ Len(text) > 1
    /\ Head(text) = "0"
    /\ \E i \in 1..Len(text) : text[i] # "0"

Parsed(pos, val) == [ok |-> val.k # "obj" \/ pos = 0, pos |-> pos, val |-> val]

NoParse == [ok |-> FALSE, pos |-> 0, val |-> NanV]

IsOp(toks, i, text) == i <= Len(toks) /\ toks[i] = Tok("op", text)

RECURSIVE ParseExpr(_, _), ExprRest(_, _, _), ParseTerm(_, _), TermRest(_, _, _)
RECURSIVE ParseFactor(_, _), ParsePower(_, _), ParseAtom(_, _)

\* '(' expr ')': the expression e has been read, the closing parenthesis follows
Closed(toks, e) ==
    IF e.ok /\ IsOp(toks, e.pos, <<")">>) THEN [e EXCEPT !.pos = @ + 1] ELSE NoParse

\* atom: NUMBER | NAME | '(' expr ')'
ParseAtom(toks, i) ==
    IF i > Len(toks) THEN NoParse
    ELSE IF toks[i].t = "num"
         THEN (IF BadLiteral(toks[i].text) THEN NoParse
               ELSE Parsed(i + 1, NumberValue(toks[i].text)))
    ELSE IF toks[i].t = "name"
         THEN (IF toks[i].text \in LibraryFunctions
               THEN [ok |-> TRUE, pos |-> i + 1, val |-> ObjV]
               ELSE Parsed(i + 1, SymV({toks[i].text})))
    ELSE IF IsOp(toks, i, <<"(">>) THEN Closed(toks, ParseExpr(toks, i + 1))
    ELSE NoParse

\* a ** f
ToThePower(a, f) ==
    IF f.ok /\ a.val.k # "obj" /\ f.val.k # "obj"
    THEN Parsed(f.pos, VPow(a.val, f.val)) ELSE NoParse

\* power: atom ['**' factor]
PowerRest(toks, a) ==
    IF a.ok /\ IsOp(toks, a.pos, <<"*", "*">>)
    THEN ToThePower(a, ParseFactor(toks, a.pos + 1))
    ELSE a

ParsePower(toks, i) == PowerRest(toks, ParseAtom(toks, i))

\* +f or -f
Signed(negative, f) ==
    IF f.ok /\ f.val.k # "obj"
    THEN Parsed(f.pos, IF negative THEN VNeg(f.val) ELSE f.val)
    ELSE NoParse

\* factor: ('+' | '-') factor | power
ParseFactor(toks, i) ==
    IF IsOp(toks, i, <<"-">>) \/ IsOp(toks, i, <<"+">>)
    THEN Signed(IsOp(toks, i, <<"-">>), ParseFactor(toks, i + 1))
    ELSE ParsePower(toks, i)

\* acc * f or acc / f, and the rest of the term
Multiplied(toks, times, acc, f) ==
    IF f.ok /\ acc.k # "obj" /\ f.val.k # "obj"
    THEN TermRest(toks, f.pos, IF times THEN VMul(acc, f.val) ELSE VDiv(acc, f.val))
    ELSE NoParse

\* term: factor (('*' | '/') factor)*, left to right
TermRest(toks, i, acc) ==
    IF IsOp(toks, i, <<"*">>) \/ IsOp(toks, i, <<"/">>)
    THEN Multiplied(toks, IsOp(toks, i, <<"*">>), acc, ParseFactor(toks, i + 1))
    ELSE [ok |-> TRUE, pos |-> i, val |-> acc]

TermFrom(toks, f) == IF f.ok THEN TermRest(toks, f.pos, f.val) ELSE NoParse

ParseTerm(toks, i) == TermFrom(toks, ParseFactor(toks, i))

\* acc + t or acc - t, and the rest of the expression
Added(toks, plus, acc, t) ==
    IF t.ok /\ acc.k # "obj" /\ t.val.k # "obj"
    THEN ExprRest(toks, t.pos, IF plus THEN VAdd(acc, t.val) ELSE VSub(acc, t.val))
    ELSE NoParse

\* expr: term (('+' | '-') term)*, left to right
ExprRest(toks, i, acc) ==
    IF IsOp(toks, i, <<"+">>) \/ IsOp(toks, i, <<"-">>)
    THEN Added(toks, IsOp(toks, i, <<"+">>), acc, ParseTerm(toks, i + 1))
    ELSE [ok |-> TRUE, pos |-> i, val |-> acc]

ExprFrom(toks, t) == IF t.ok THEN ExprRest(toks, t.pos, t.val) ELSE NoParse

ParseExpr(toks, i) == ExprFrom(toks, ParseTerm(toks, i))

\* the whole text is one expression
WholeText(text, toks, r) ==
    IF toks # <<>> /\ toks[Len(toks)].t # "bad" /\ r.ok /\ r.pos = Len(toks) + 1
    THEN Return(r.val)
    ELSE Raise("SympifyError", "parse", text)

Tokens(text, toks) == WholeText(text, toks, ParseExpr(toks, 1))

\* sympify(text): the parsed and evaluated expression, or the library's error
sympify(text) == Tokens(text, Tokenize(text))



(***************************************************************************)
(* Python float: float(text) and the arithmetic of the explain_* methods   *)
(***************************************************************************)

\* float(p) for a text of digits, '.' and '-': an optional sign and a number
\* literal, or ValueError
Unsigned(p) == IF p # <<>> /\ Head(p) = "-" THEN Tail(p) ELSE p

\* float(p) raises ValueError
FloatRaises(p) == Unsigned(p) = <<>> \/ NumberLength(Unsigned(p)) # Len(Unsigned(p))

\* the double nearest to the number v, negated if neg
Nearest(neg, v) ==
    IF v.k = "int" THEN IntV(RoundToDouble(Wide(neg, v.w.hi, v.w.lo)))
    ELSE IF neg THEN VNeg(v) ELSE v

FloatOf(p) ==
    IF FloatRaises(p) THEN Raise("ValueError", "float", p)
    ELSE Return(Nearest(p # <<>> /\ Head(p) = "-", NumberValue(Unsigned(p))))

\* a float result: an integer result is rounded to a double
AsDouble(v) == IF v.k = "int" THEN IntV(RoundToDouble(v.w)) ELSE v

\* v <= n and v > n for a float v and a small integer n
LessEq(v, n) ==
    \/ v.k = "int" /\ (v.w.neg \/ (v.w.hi = 0 /\ v.w.lo <= n))
    \/ v.k = "rat" /\ v.n <= n * v.d

Greater(v, n) == v.k \in {"int", "rat"} /\ ~LessEq(v, n)

\* f"{x}" for x = int(v) if v == int(v) else v: an int prints its digits; the
\* repr of any other float is one pseudo-character
Shown(v) == IF v.k = "int" THEN IntText(v.w) ELSE <<"<float>">>

\* the signs the step texts use
DivSign == "<div>"

TimesSign == "<times>"

IntegralSign == "<integral>"

(***************************************************************************)
(* calculator_engine.py: steps, operation detection, explanations          *)
(***************************************************************************)

\* Step(step=..., description=..., expression=...).model_dump(); the free-text
\* detail of a step is not modelled
Step(step, description, expression) ==
    [step |-> step, description |-> description, expression |-> expression]

\* the fields class Step declares (its detail is not modelled)
StepFields == {"step", "description", "expression"}

\* Step(**kwargs).model_dump(): a keyword that is no field of the class is
\* ignored by the constructor and is not in the dict
model_dump(kwargs) == [f \in (DOMAIN kwargs) \cap StepFields |-> kwargs[f]]

\* Step(step=..., description=..., expression=..., expression_latex=...)
\* .model_dump()
Rendered(step, description, expression, latex) ==
    model_dump([step |-> step, description |-> description, expression |-> expression,
                expression_latex |-> latex])

\* latex(expr) of the symbolic library: one pseudo-text
LatexOf == <<"<latex>">>

\* what a calculator method returns
Result(result, steps, mode) == Return([result |-> result, steps |-> steps, mode |-> mode])

Unknown == [op |-> "unknown", nums |-> <<>>]

\* p.replace(".", "").replace("-", "").isdigit()
LooksNumeric(p) == IsDigit(Remove(Remove(p, "."), "-"))

\* the try block of each detection: both parts look numeric and float() accepts
\* them, otherwise the detection falls through
Operands(op, p1, p2) ==
    IF LooksNumeric(p1) /\ LooksNumeric(p2) /\ ~FloatRaises(p1) /\ ~FloatRaises(p2)
    THEN [op |-> op, nums |-> [i \in 1..2 |-> FloatOf(<<p1, p2>>[i]).value]]
    ELSE Unknown

SplitOperands(op, e, sep) ==
    LET parts == Split(e, sep)
    IN  IF Len(parts) = 2 THEN Operands(op, Strip(parts[1]), Strip(parts[2])) ELSE Unknown

DetectDivision(e) ==
    IF /\ Contains(e, <<"/">>) /\ ~Contains(e, <<"*">>) /\ ~Contains(e, <<"+">>)
       /\ ~Contains(Remove(e, " "), <<"-">>)
    THEN SplitOperands("division", e, <<"/">>)
    ELSE Unknown

DetectMultiplication(e) ==
    LET temp == Remove(e, " ")
    IN  IF /\ Contains(e, <<"*">>) /\ ~Contains(e, <<"*", "*">>)
           /\ ~Contains(e, <<"/">>) /\ ~Contains(e, <<"+">>)
           /\ Count(temp, "-") <= 1
           /\ (Count(temp, "-") = 0 \/ StartsWith(temp, <<"-">>) \/ Find(temp, <<"*", "-">>) > 0)
        THEN SplitOperands("multiplication", e, <<"*">>)
        ELSE Unknown

DetectPower(e) ==
    IF /\ Contains(e, <<"*", "*">>) /\ ~Contains(e, <<"/">>) /\ ~Contains(e, <<"+">>)
       /\ Count(Remove(e, " "), "-") <= 1
    THEN SplitOperands("power", e, <<"*", "*">>)
    ELSE Unknown

DetectAddition(e) ==
    IF /\ Contains(e, <<"+">>) /\ ~Contains(e, <<"(">>)
       /\ ~Contains(e, <<"*">>) /\ ~Contains(e, <<"/">>)
    THEN SplitOperands("addition", e, <<"+">>)
    ELSE Unknown

DetectSubtraction(e) ==
    LET idx == RFind(e, <<"-">>)
    IN  IF /\ Contains(e, <<"-">>) /\ ~Contains(e, <<"(">>) /\ ~Contains(e, <<"*">>)
           /\ ~Contains(e, <<"/">>) /\ ~Contains(e, <<"+">>)
           /\ idx > 0
        THEN Operands("subtraction", Strip(Slice(e, 0, idx)), Strip(Slice(e, idx + 1, Len(e))))
        ELSE Unknown

\* _detect_operation_type: the first detection that succeeds, in the order
\* division, multiplication, power, addition, subtraction
RECURSIVE FirstKnown(_)
FirstKnown(detections) ==
    IF detections = <<>> THEN Unknown
    ELSE IF Head(detections) # Unknown THEN Head(detections)
    ELSE FirstKnown(Tail(detections))

Detections(expr_clean) ==
    << DetectDivision(expr_clean), DetectMultiplication(expr_clean), DetectPower(expr_clean),
       DetectAddition(expr_clean), DetectSubtraction(expr_clean) >>

detect_operation_type(expression) == FirstKnown(Detections(Strip(expression)))

\* a final step numbered len(steps), the number of the step before it
StaleStep(steps) == Len(steps)

\* the step number of the step appended next: len(steps) + 1
NextStep(steps) == Len(steps) + 1

\* sep.join([text] * n)
RECURSIVE JoinRepeat(_, _, _)
JoinRepeat(text, n, sep) ==
    IF n <= 0 THEN <<>>
    ELSE IF n = 1 THEN text
    ELSE text \o sep \o JoinRepeat(text, n - 1, sep)

\* steps.append(Step(step=len(steps) + 1, ...))
Appended(steps, description, expression) ==
    steps \o <<Step(NextStep(steps), description, expression)>>

\* steps.append(Step(step=len(steps) + 1, ..., expression_latex=...))
AppendedRendered(steps, description, expression, latex) ==
    steps \o <<Rendered(NextStep(steps), description, expression, latex)>>

\* f"{a} {sign} {b}" and f"{a} {sign} {b} = {c}"
Operation(a, sign, b) == a \o <<" ", sign, " ">> \o b

Equality(a, sign, b, c) == a \o <<" ", sign, " ">> \o b \o <<" ", "=", " ">> \o c

\* the steps of _explain_addition and _explain_subtraction, the numbers printed
SumSteps(meaning, doing, sign, shown1, shown2, shown) ==
    << Step(1, meaning, Operation(shown1, sign, shown2)),
       Step(2, doing, Equality(shown1, sign, shown2, shown)),
       Step(3, "Resultado final", shown) >>

\* _explain_addition, with result = num1 + num2
Addition(num1, num2, result) ==
    Result(format_number(result),
           SumSteps("Que significa sumar", "Sumar los numeros", "+",
                    Shown(num1), Shown(num2), Shown(result)),
           "arithmetic")

explain_addition(num1, num2) == Addition(num1, num2, AsDouble(VAdd(num1, num2)))

\* _explain_subtraction, with result = num1 - num2
Subtraction(num1, num2, result) ==
    Result(format_number(result),
           SumSteps("Que significa restar", "Restar los numeros", "-",
                    Shown(num1), Shown(num2), Shown(result)),
           "arithmetic")

explain_subtraction(num1, num2) == Subtraction(num1, num2, AsDouble(VSub(num1, num2)))

\* int(x) of a float in the model's small range, truncating toward zero
Truncated(v) ==
    IF v.k = "int" THEN ToInt(v.w)
    ELSE IF v.n < 0 THEN -((-v.n) \div v.d) ELSE v.n \div v.d

\* _explain_multiplication
\* the steps of _explain_multiplication, the numbers printed
ProductSteps(num1, num2, shown1, shown2, shown) ==
    Appended(
        Appended(
            IF LessEq(num1, 12) /\ LessEq(num2, 12)
            THEN << Step(1, "Que significa multiplicar", Operation(shown1, TimesSign, shown2)),
                    Step(2, "Representar como suma",
                         IF LessEq(num2, 5)
                         THEN JoinRepeat(shown1, Truncated(num2), <<" ", "+", " ">>)
                         ELSE Operation(shown1, TimesSign, shown2)) >>
            ELSE <<Step(1, "Que significa multiplicar", Operation(shown1, TimesSign, shown2))>>,
            "Calcular el producto", Equality(shown1, TimesSign, shown2, shown)),
        "Resultado final", shown)

\* _explain_multiplication, with result = num1 * num2
Multiplication(num1, num2, result) ==
    Result(format_number(result),
           ProductSteps(num1, num2, Shown(num1), Shown(num2), Shown(result)),
           "arithmetic")

explain_multiplication(num1, num2) == Multiplication(num1, num2, AsDouble(VMul(num1, num2)))



\* base ** exponent on floats raises for 0 to a negative power
\* (ZeroDivisionError); a negative base to a fractional power is a complex
\* number, which int(result) refuses (TypeError)
\* v < 0 for an exact value
IsNegative(v) == (v.k = "int" /\ v.w.neg) \/ (v.k = "rat" /\ v.n < 0)

PowerRaises(base, exponent) ==
    \/ (IsZero(base) /\ IsNegative(exponent))
    \/ (exponent.k = "rat" /\ IsNegative(base))

\* _explain_power
\* f"{base_int}^{{{exp_int}}}" and " \\times "
PowerLatex(shown1, shown2) == shown1 \o <<"^", "{">> \o shown2 \o <<"}">>

TimesLatex == <<" ", "\\", "t", "i", "m", "e", "s", " ">>

\* the steps of _explain_power, the numbers printed
PowerSteps(exponent, shown1, shown2, shown) ==
    AppendedRendered(
        AppendedRendered(
            IF LessEq(exponent, 5) /\ exponent.k = "int" /\ Greater(exponent, 0)
            THEN << Rendered(1, "Que significa una potencia", shown1 \o <<"^">> \o shown2,
                             PowerLatex(shown1, shown2)),
                    Rendered(2, "Representar como multiplicacion",
                             JoinRepeat(shown1, Truncated(exponent), <<" ", TimesSign, " ">>),
                             JoinRepeat(shown1, Truncated(exponent), TimesLatex)) >>
            ELSE <<Rendered(1, "Que significa una potencia", shown1 \o <<"^">> \o shown2,
                            PowerLatex(shown1, shown2))>>,
            "Calcular la potencia", shown1 \o <<"^">> \o shown2 \o <<" ", "=", " ">> \o shown,
            PowerLatex(shown1, shown2) \o <<" ", "=", " ">> \o shown),
        "Resultado final", shown, shown)

\* _explain_power, with result = base ** exponent
Power(base, exponent, result) ==
    IF PowerRaises(base, exponent)
    THEN Raise(IF IsZero(base) THEN "ZeroDivisionError" ELSE "TypeError", "power", <<>>)
    ELSE Result(format_number(result),
                PowerSteps(exponent, Shown(base), Shown(exponent), Shown(result)),
                "arithmetic")

explain_power(base, exponent) == Power(base, exponent, AsDouble(VPow(base, exponent)))

\* the loop of _explain_long_division over the digits of the dividend from
\* position i on: the quotient text built so far and the running remainder
RECURSIVE LongDivisionLoop(_, _, _, _, _)
LongDivisionLoop(dividend_str, i, divisor, current, quotient) ==
    IF i > Len(dividend_str) THEN quotient
    ELSE LET cur == current * 10 + DigitValue(dividend_str[i])
         IN  IF cur >= divisor
             THEN LongDivisionLoop(dividend_str, i + 1, divisor, cur % divisor,
                                   quotient \o NatText(cur \div divisor))
             ELSE IF quotient # <<>>
             THEN LongDivisionLoop(dividend_str, i + 1, divisor, cur, quotient \o <<"0">>)
             ELSE LongDivisionLoop(dividend_str, i + 1, divisor, cur, quotient)

\* _explain_long_division: steps 3 and 4, the latter showing the quotient text
explain_long_division(dividend, divisor) ==
    << Step(3, "Paso a paso con division larga",
            IntText(dividend) \o <<" ", DivSign, " ">> \o NatText(divisor)),
       Step(4, "Proceso detallado",
            LongDivisionLoop(IntText(dividend), 1, divisor, 0, <<>>)) >>

\* dividend % divisor if both are whole, else 0 (the model divides by small
\* integers, and the dividend of a simple division is never negative)
Remainder(dividend, divisor) ==
    IF dividend.k = "int" /\ divisor.k = "int"
    THEN ((dividend.w.hi % divisor.w.lo) * (Limb % divisor.w.lo) + dividend.w.lo) % divisor.w.lo
    ELSE 0

\* _explain_division
\* f"\\frac{{{dividend_int}}}{{{divisor_int}}} = {result_int}"
FracLatex(shown1, shown2, shown) ==
    <<"\\", "f", "r", "a", "c", "{">> \o shown1 \o <<"}", "{">> \o shown2
        \o <<"}", " ", "=", " ">> \o shown

\* steps 1 to 3 (or 4) of _explain_division
DivisionProcess(dividend, divisor, question, answer, latex) ==
    << Rendered(1, "Que significa dividir", question, LatexOf),
       Rendered(2, "Que es", question, LatexOf) >>
        \o (IF dividend.k = "int" /\ divisor.k = "int" /\ Greater(dividend, 99)
            THEN explain_long_division(dividend.w, ToInt(divisor.w))
            ELSE <<Rendered(3, "Resolver la division", answer, latex)>>)

\* the verification step of _explain_division, when the remainder is 0
DivisionVerified(process, exact, verification, latex) ==
    IF exact THEN AppendedRendered(process, "Verificar el resultado", verification, latex)
    ELSE process

\* the steps of _explain_division, the numbers printed
DivisionSteps(dividend, divisor, shown1, shown2, shown) ==
    AppendedRendered(
        DivisionVerified(
            DivisionProcess(dividend, divisor, Operation(shown1, DivSign, shown2),
                            Equality(shown1, DivSign, shown2, shown),
                            FracLatex(shown1, shown2, shown)),
            Remainder(dividend, divisor) = 0,
            Equality(shown2, TimesSign, shown, shown1),
            shown2 \o TimesLatex \o shown \o <<" ", "=", " ">> \o shown1),
        "Resultado final", Equality(shown1, DivSign, shown2, shown),
        FracLatex(shown1, shown2, shown))

\* _explain_division, with result = dividend / divisor
Division(dividend, divisor, result) ==
    IF IsZero(divisor) THEN Raise("ZeroDivisionError", "division", <<>>)
    ELSE Result(format_number(result),
                DivisionSteps(dividend, divisor, Shown(dividend), Shown(divisor), Shown(result)),
                "arithmetic")

explain_division(dividend, divisor) == Division(dividend, divisor, AsDouble(VDiv(dividend, divisor)))



\* the length of the longest prefix of s made of characters outside S
RECURSIVE RunOutside(_, _)
RunOutside(s, S) == IF s # <<>> /\ Head(s) \notin S THEN 1 + RunOutside(Tail(s), S) ELSE 0

\* replace_parentheses: the text a group '(inner)' is replaced by.  A number is
\* printed by format_number(float(result)); any other expression by str(result),
\* for which the model keeps the text that was parsed; a group that cannot be
\* evaluated or converted to float is kept as it is
Replacement(inner, result) ==
    IF ~result.ok \/ result.value.k \in {"obj", "zoo"} THEN <<"(">> \o inner \o <<")">>
    ELSE IF result.value.k = "sym" THEN Strip(inner)
    ELSE format_number(result.value)

replace_parentheses(inner) == Replacement(inner, sympify(inner))

\* _process_parentheses: re.sub(r'\(([^()]+)\)', replace_parentheses, expression),
\* every innermost group, left to right, in one pass
RECURSIVE process_parentheses(_)
\* the text from its first character on, n characters before the next
\* parenthesis
Group(expression, n) ==
    IF /\ Head(expression) = "(" /\ n > 0
       /\ n + 2 <= Len(expression) /\ expression[n + 2] = ")"
    THEN replace_parentheses(Slice(expression, 1, n + 1))
             \o process_parentheses(Slice(expression, n + 2, Len(expression)))
    ELSE <<Head(expression)>> \o process_parentheses(Tail(expression))

process_parentheses(expression) ==
    IF expression = <<>> THEN <<>>
    ELSE Group(expression, RunOutside(Tail(expression), {"(", ")"}))

\* _process_multiplication_division: returns its argument
process_multiplication_division(expression) == expression

\* _process_addition_subtraction: returns its argument
process_addition_subtraction(expression) == expression

\* the three stages of _generate_calculation_steps
StageDescriptions ==
    << "Resolver parentesis", "Resolver multiplicacion/division", "Resolver suma/resta" >>

\* the text a stage makes of the current text
Processed(k, current) ==
    CASE k = 1 -> process_parentheses(current)
      [] k = 2 -> process_multiplication_division(current)
      [] k = 3 -> process_addition_subtraction(current)

\* one stage of _generate_calculation_steps: when the processed text differs, a
\* step showing it is appended and it becomes the current text; sympify raising
\* on it ends the stages.  The state is the steps, the current text and whether
\* an exception was raised.
Stage(st, description, processed) ==
    IF st.raised \/ processed = st.current THEN st
    ELSE IF ~sympify(processed).ok THEN [st EXCEPT !.raised = TRUE]
    ELSE [st EXCEPT !.steps = @ \o <<Rendered(st.step_num, description, processed, LatexOf)>>,
                    !.current = processed,
                    !.step_num = @ + 1]

\* the stages from the k-th on
RECURSIVE Stages(_, _)
Stages(st, k) ==
    IF k > Len(StageDescriptions) THEN st
    ELSE Stages(Stage(st, StageDescriptions[k], Processed(k, st.current)), k + 1)

\* the except branch of _generate_calculation_steps: a generic step numbered
\* step_num
StagesDone(st, expression) ==
    IF st.raised
    THEN st.steps \o <<Rendered(st.step_num, "Resolver paso a paso", expression, LatexOf)>>
    ELSE st.steps

\* _generate_calculation_steps: the PEMDAS step, the three stages, and on an
\* exception the generic step
generate_calculation_steps(expression) ==
    StagesDone(Stages([steps |-> <<Rendered(2, "Orden de operaciones (PEMDAS)", expression,
                                            LatexOf)>>,
                       current |-> expression, step_num |-> 3, raised |-> FALSE], 1),
               expression)

\* format_number(expr.evalf()), or str(expr) when evalf raises (expr is no
\* expression)
Evaluated(expr) == IF expr.k = "obj" THEN StrOf(expr) ELSE format_number(expr)

\* the basic answer of _arithmetic_compound's except branch
compound_fallback(expression, result, latex) ==
    Result(result,
           << Rendered(1, "Expresion", expression, LatexOf),
              Rendered(2, "Resultado", result, latex) >>,
           "arithmetic")

\* to_latex of a str: the number formatted when float() takes the text ('nan'
\* is the one text of that kind the model has besides the decimal numbers),
\* else what the library makes of it
to_latex(expression) ==
    IF expression = <<"n", "a", "n">> THEN expression
    ELSE IF FloatRaises(expression) THEN LatexOf
    ELSE format_number(FloatOf(expression).value)

\* _arithmetic_compound with the result printed and rendered
CompoundRendered(expression, expr, result, latex) ==
    IF expr.k = "obj" THEN compound_fallback(expression, result, latex)
    ELSE Result(result,
                AppendedRendered(<<Rendered(1, "Expresion original", expression, LatexOf)>>
                                     \o generate_calculation_steps(expression),
                                 "Resultado final", result, latex),
                "arithmetic")

\* _arithmetic_compound with the result printed
Compound(expression, expr, result) ==
    CompoundRendered(expression, expr, result, to_latex(result))

\* _arithmetic_compound: the original expression, the intermediate steps and the
\* final result; any exception gives the basic answer instead
arithmetic_compound(expression, expr) == Compound(expression, expr, Evaluated(expr))

\* the explanation _arithmetic_detailed asks for
explain(op, nums) ==
    CASE op = "division" -> explain_division(nums[1], nums[2])
      [] op = "multiplication" -> explain_multiplication(nums[1], nums[2])
      [] op = "addition" -> explain_addition(nums[1], nums[2])
      [] op = "subtraction" -> explain_subtraction(nums[1], nums[2])
      [] op = "power" -> explain_power(nums[1], nums[2])

\* no simple operation was detected
NotSimple == Raise("NotSimple", "unknown", <<>>)

\* the explanation of the operation detected, if it is a simple one
Explained(detected) ==
    IF detected.op # "unknown" /\ Len(detected.nums) = 2
    THEN explain(detected.op, detected.nums)
    ELSE NotSimple

\* an explanation that raised is raised to the caller
Strict(expression, expr, explained) ==
    IF ~explained.ok /\ explained.cls = "NotSimple" THEN arithmetic_compound(expression, expr) ELSE explained

\* _arithmetic_detailed without its except branch
arithmetic_detailed_strict(expression, expr) ==
    Strict(expression, expr, Explained(detect_operation_type(expression)))

\* an unknown operation, or any exception, goes to _arithmetic_compound
OrCompound(expression, expr, explained) ==
    IF explained.ok THEN explained ELSE arithmetic_compound(expression, expr)

\* _arithmetic_detailed: the explanation of a simple operation, else
\* _arithmetic_compound
arithmetic_detailed(expression, expr) ==
    OrCompound(expression, expr, Explained(detect_operation_type(expression)))

\* except Exception as e: raise ValueError(f"{kind}: {str(e)}")
Wrapped(kind, outcome) ==
    IF outcome.ok THEN outcome ELSE Raise("ValueError", kind, outcome.message)

\* an _arithmetic that lets the parser's exception through
ArithmeticUnwrapped(expression, parsed) ==
    IF ~parsed.ok THEN Raise("SympifyError", "Error en aritmetica", parsed.message)
    ELSE arithmetic_detailed(expression, parsed.value)

\* _arithmetic with the text parsed
Arithmetic(expression, parsed) ==
    IF ~parsed.ok THEN Raise("ValueError", "Error en aritmetica", parsed.message)
    ELSE Wrapped("Error en aritmetica", arithmetic_detailed(expression, parsed.value))

\* _arithmetic: parse, then explain; any exception becomes ValueError
arithmetic(expression) == Arithmetic(expression, sympify(expression))



(***************************************************************************)
(* The symbolic library's answers.  What solve, expand, simplify, diff and *)
(* integrate return is the library's business; the model takes it as an    *)
(* input of the request:                                                   *)
(*   raises           the library call raises an exception                 *)
(*   expandChanges    expand(expr) != expr                                 *)
(*   simplifyChanges  simplify(expr) != expr                               *)
(*   solutions        the list solve(equation, var) returns                *)
(*   var              the symbol that iterating the set of free symbols    *)
(*                    yields first                                         *)
(***************************************************************************)

\* Python's None
None == "<None>"

\* list(free_symbols)[0]
FirstSymbol(free, lib) == IF lib.var \in free THEN lib.var ELSE CHOOSE v \in free : TRUE

\* the accent of the source's 'Sin solución' is not written
SinSolucion == <<"S", "i", "n", " ", "s", "o", "l", "u", "c", "i", "o", "n">>

\* ', '.join(texts) written without its separator
JoinUnseparated(texts, sep) == Concat(texts)

\* ', '.join(texts) and ' o '.join(texts)
RECURSIVE Join(_, _)
Join(texts, sep) ==
    IF texts = <<>> THEN <<>>
    ELSE IF Len(texts) = 1 THEN texts[1]
    ELSE texts[1] \o sep \o Join(Tail(texts), sep)

\* solve(equation, var): an equation 'var = number' has the one solution
\* number; for any other equation the answer is the library's
IsAssignment(left_text, right_expr, var) == left_text = var /\ IsExact(right_expr)

solve(left_text, right_expr, var, lib) ==
    IF IsAssignment(left_text, right_expr, var) THEN <<right_expr>> ELSE lib.solutions

\* a solver call that also raises when there is no solution
SolveRaisesOnNone(left_text, right_expr, var, lib) ==
    ~IsAssignment(left_text, right_expr, var) /\ (lib.raises \/ lib.solutions = <<>>)

\* solve(equation, var) raises
SolveRaises(left_text, right_expr, var, lib) ==
    lib.raises /\ ~IsAssignment(left_text, right_expr, var)

\* the steps of _algebra after the introduction: expand and simplify, each
\* shown when it changes the expression
AlgebraExpanded(steps, lib) ==
    IF lib.expandChanges THEN Appended(steps, "Expandir expresion", <<"<expanded>">>)
    ELSE steps

AlgebraSimplified(steps, lib) ==
    IF lib.simplifyChanges
    THEN Appended(steps, "Simplificar y combinar terminos", <<"<simplified>">>)
    ELSE steps

\* the result text of _algebra
AlgebraResult(expr, lib) ==
    IF lib.simplifyChanges THEN <<"<simplified>">>
    ELSE IF lib.expandChanges THEN <<"<expanded>">>
    ELSE StrOf(expr)

\* the last step of _algebra
AlgebraSteps(steps, result_str) ==
    Appended(steps,
             IF Len(steps) <= 2 THEN "Expresion simplificada" ELSE "Resultado final",
             result_str)

\* an _algebra that works an expression without variables itself
AlgebraOfNumbers(expression, lib, parsed) ==
    IF ~parsed.ok THEN Raise("ValueError", "Error en algebra", parsed.message)
    ELSE IF parsed.value.k = "obj" THEN Raise("ValueError", "Error en algebra", "AttributeError")
    ELSE IF lib.raises THEN Raise("ValueError", "Error en algebra", "library")
    ELSE Result(AlgebraResult(parsed.value, lib),
                AlgebraSteps(<<Step(1, "Que es una expresion algebraica", expression)>>,
                             AlgebraResult(parsed.value, lib)),
                "algebra")

\* _algebra with the text parsed
Algebra(expression, lib, parsed) ==
    IF ~parsed.ok THEN Raise("ValueError", "Error en algebra", parsed.message)
    ELSE IF parsed.value.k = "obj" THEN Raise("ValueError", "Error en algebra", "AttributeError")
    ELSE IF parsed.value.free = {} THEN Wrapped("Error en algebra", arithmetic(expression))
    ELSE IF lib.raises THEN Raise("ValueError", "Error en algebra", "library")
    ELSE Result(AlgebraResult(parsed.value, lib),
                AlgebraSteps(
                    AlgebraSimplified(
                        AlgebraExpanded(
                            << Step(1, "Que es una expresion algebraica", expression),
                               Step(2, "Identificar variables", expression) >>, lib), lib),
                    AlgebraResult(parsed.value, lib)),
                "algebra")

\* _algebra: an expression without variables goes to _arithmetic; otherwise the
\* introduction, the variables, expand, simplify and the result
algebra(expression, lib) == Algebra(expression, lib, sympify(expression))

\* f"Eq({left}, {right})"
EquationText(left, right) == <<"E", "q", "(">> \o left \o <<",", " ">> \o right \o <<")">>

\* steps 1 to 4 of _solve_equation, the two sides printed
EquationSteps(expression, left, right) ==
    << Step(1, "Que es una ecuacion", expression),
       Step(2, "Los dos lados de la ecuacion", left \o <<" ", "=", " ">> \o right),
       Step(3, "Identificar la incognita", EquationText(left, right)),
       Step(4, "Resolver la ecuacion", EquationText(left, right)) >>

\* the result text of _solve_equation, the solutions formatted
SolutionText(var, sols_formatted) ==
    IF sols_formatted = <<>> THEN SinSolucion
    ELSE IF Len(sols_formatted) = 1 THEN var \o <<" ", "=", " ">> \o sols_formatted[1]
    ELSE var \o <<" ", "=", " ", "{">> \o Join(sols_formatted, <<",", " ">>) \o <<"}">>

\* the verification step, for a single solution
SolutionVerified(steps, var, sols_formatted) ==
    IF Len(sols_formatted) = 1
    THEN steps \o <<Step(5, "Verificar la solucion", var \o <<" ", "=", " ">> \o sols_formatted[1])>>
    ELSE steps

\* _solve_equation from the formatted solutions on
SolutionResult(steps, var, sols_formatted) ==
    Result(SolutionText(var, sols_formatted),
           Appended(SolutionVerified(steps, var, sols_formatted),
                    "Resultado final", SolutionText(var, sols_formatted)),
           "solve")

\* [format_number(sol) for sol in solutions]
Formatted(solutions) == [i \in 1..Len(solutions) |-> format_number(solutions[i])]

\* _solve_equation from the choice of the variable on
SolveFor(expression, left_text, left, right, var, lib) ==
    IF SolveRaises(left_text, right, var, lib)
    THEN Raise("ValueError", "Error resolviendo ecuacion", "library")
    ELSE SolutionResult(EquationSteps(expression, StrOf(left), StrOf(right)), var,
                        Formatted(solve(left_text, right, var, lib)))

\* _solve_equation with the two sides parsed
SolveSides(expression, left_text, sides, lib) ==
    IF ~sides[1].ok THEN Raise("ValueError", "Error resolviendo ecuacion", sides[1].message)
    ELSE IF ~sides[2].ok THEN Raise("ValueError", "Error resolviendo ecuacion", sides[2].message)
    ELSE IF sides[1].value.k = "obj" \/ sides[2].value.k = "obj"
    THEN Raise("ValueError", "Error resolviendo ecuacion", "SympifyError")
    ELSE IF sides[1].value.free \cup sides[2].value.free = {}
    THEN Raise("ValueError", "Error resolviendo ecuacion",
               "No se encontro ninguna variable en la ecuacion")
    ELSE SolveFor(expression, left_text, sides[1].value, sides[2].value,
                  FirstSymbol(sides[1].value.free \cup sides[2].value.free, lib), lib)

\* sp.sympify(part.strip()) of every part
Sides(parts) == [i \in 1..Len(parts) |-> sympify(Strip(parts[i]))]

\* _solve_equation with the text split at '='
SolveParts(expression, parts, lib) ==
    IF Len(parts) # 2
    THEN Raise("ValueError", "Error resolviendo ecuacion", "too many values to unpack")
    ELSE SolveSides(expression, Strip(parts[1]), Sides(parts), lib)

\* _solve_equation
solve_equation(expression, lib) ==
    IF ~Contains(expression, <<"=">>)
    THEN Raise("ValueError", "Error resolviendo ecuacion", "La expresion debe contener un signo '='")
    ELSE SolveParts(expression, Split(expression, <<"=">>), lib)

\* _solve_equation gets as far as calling solve(equation, var)
ReachesSolve(expression) ==
    LET parts == Split(expression, <<"=">>)
        left == sympify(Strip(parts[1]))
        right == sympify(Strip(parts[2]))
    IN  /\ Contains(expression, <<"=">>)
        /\ Len(parts) = 2
        /\ left.ok /\ right.ok
        /\ left.value.k # "obj" /\ right.value.k # "obj"
        /\ left.value.free \cup right.value.free # {}

\* the variable _solve_equation solves for and the list solve returns
SolvedFor(expression, lib) ==
    LET parts == Split(expression, <<"=">>)
    IN  FirstSymbol(sympify(Strip(parts[1])).value.free
                        \cup sympify(Strip(parts[2])).value.free, lib)

Solved(expression, lib) ==
    LET parts == Split(expression, <<"=">>)
    IN  solve(Strip(parts[1]), sympify(Strip(parts[2])).value, SolvedFor(expression, lib), lib)



\* the request's variables: None, or a dict from a key to a str or a number
NoVariables == [given |-> FALSE, map |-> <<>>]

Variables(map) == [given |-> TRUE, map |-> map]

StrValue(text) == [str |-> TRUE, text |-> text]

NumValue(text) == [str |-> FALSE, text |-> text]

\* variables and 'var' in variables
HasVar(variables) == variables.given /\ "var" \in DOMAIN variables.map

\* the variable _derivative and _integral work with: symbols(variables['var']),
\* else the first free symbol, else x
ChosenVariable(expr, variables, lib) ==
    IF HasVar(variables) THEN variables.map["var"].text
    ELSE IF expr.free # {} THEN FirstSymbol(expr.free, lib)
    ELSE <<"x">>

\* what both _derivative and _integral raise on: the text does not parse, it is
\* no expression, symbols() refuses a value that is no str, or the library raises
CalculusRaises(parsed, variables, lib) ==
    \/ ~parsed.ok
    \/ parsed.value.k = "obj"
    \/ (HasVar(variables) /\ ~variables.map["var"].str)
    \/ lib.raises

\* the steps of _derivative
DerivativeSteps(expression, shown, result, lib) ==
    Appended(<< Step(1, "Que es una derivada", expression),
                Step(2, "Variable de derivacion", shown),
                Step(3, "Identificar tipo de funcion", shown),
                Step(4, "Aplicar reglas de derivacion", <<"<derivative>">>) >>
                 \o (IF lib.simplifyChanges THEN <<Step(5, "Simplificar", <<"<simplified>">>)>>
                     ELSE <<>>),
             "Resultado final", result)

\* f"d/d{var}[{expr}] = {derivative}"
DerivativeText(var, shown, lib) ==
    <<"d", "/", "d">> \o var \o <<"[">> \o shown \o <<"]", " ", "=", " ">>
        \o (IF lib.simplifyChanges THEN <<"<simplified>">> ELSE <<"<derivative>">>)

\* _derivative from the result text on
Derived(expression, shown, result, lib) ==
    Result(result, DerivativeSteps(expression, shown, result, lib), "derivative")

\* _derivative with the text parsed
Derivative(expression, variables, lib, parsed) ==
    IF CalculusRaises(parsed, variables, lib)
    THEN Raise("ValueError", "Error calculando derivada", "exception")
    ELSE Derived(expression, StrOf(parsed.value),
                 DerivativeText(ChosenVariable(parsed.value, variables, lib),
                                StrOf(parsed.value), lib),
                 lib)

\* _derivative
derivative(expression, variables, lib) ==
    Derivative(expression, variables, lib, sympify(expression))

\* f"{antiderivative} + C"
IntegralResult == <<"<antiderivative>", " ", "+", " ", "C">>

\* the steps of _integral
IntegralSteps(expression, shown, result) ==
    << Step(1, "Que es una integral", expression),
       Step(2, "Variable de integracion", shown),
       Step(3, "Identificar tipo de funcion", shown),
       Step(4, "Aplicar reglas de integracion", <<"<antiderivative>">>),
       Step(5, "Anadir constante", IntegralResult),
       Step(6, "Resultado final", result) >>

\* the result text of _integral
IntegralText(var, shown) ==
    <<IntegralSign>> \o shown \o <<" ", "d">> \o var \o <<" ", "=", " ">> \o IntegralResult

\* _integral from the result text on
Integrated(expression, shown, result) ==
    Result(result, IntegralSteps(expression, shown, result), "integral")

\* _integral with the text parsed
Integral(expression, variables, lib, parsed) ==
    IF CalculusRaises(parsed, variables, lib)
    THEN Raise("ValueError", "Error calculando integral", "exception")
    ELSE Integrated(expression, StrOf(parsed.value),
                    IntegralText(ChosenVariable(parsed.value, variables, lib),
                                 StrOf(parsed.value)))

\* _integral
integral(expression, variables, lib) == Integral(expression, variables, lib, sympify(expression))

\* any(word in expr_lower for word in words)
ContainsAny(text, words) == \E w \in words : Contains(text, w)

DerivativeWords ==
    { <<"d", "/", "d", "x">>,
      <<"d", "e", "r", "i", "v", "a", "t", "i", "v", "e">>,
      <<"d", "i", "f", "f">> }

IntegralWords ==
    { <<"i", "n", "t", "e", "g", "r", "a", "l">>,
      <<"i", "n", "t", "e", "g", "r", "a", "t", "e">> }

\* the try block of _detect_mode: the text parses and has free symbols
HasSymbols(parsed) == parsed.ok /\ parsed.value.k # "obj" /\ parsed.value.free # {}

\* _detect_mode with the keyword checks ahead of the check for '='
detect_mode_keywords_first(expression) ==
    IF ContainsAny(Lower(expression), DerivativeWords) THEN "derivative"
    ELSE IF ContainsAny(Lower(expression), IntegralWords) THEN "integral"
    ELSE IF Contains(expression, <<"=">>) THEN "solve"
    ELSE IF HasSymbols(sympify(expression)) THEN "algebra"
    ELSE "arithmetic"

\* _detect_mode
detect_mode(expression) ==
    IF Contains(expression, <<"=">>) THEN "solve"
    ELSE IF ContainsAny(Lower(expression), DerivativeWords) THEN "derivative"
    ELSE IF ContainsAny(Lower(expression), IntegralWords) THEN "integral"
    ELSE IF HasSymbols(sympify(expression)) THEN "algebra"
    ELSE "arithmetic"

\* CalculatorEngine.supported_modes
supported_modes == <<"auto", "arithmetic", "algebra", "solve", "derivative", "integral">>

InList(x, list) == \E i \in 1..Len(list) : list[i] = x

\* CalculatorEngine(): the attributes __init__ sets
CalculatorEngine == [supported_modes |-> supported_modes]

\* an engine that drops the mode it has just served from its list
EngineForgetting(self) == [self EXCEPT !.supported_modes = Tail(@)]

\* the attributes of the engine after one of its methods has run: calculate,
\* _detect_mode, validate_expression and the methods they call assign none
EngineAfter(self) == self

\* the mode CalculatorEngine.calculate works with: the detected one for "auto"
UsedMode(expression, mode) == IF mode = "auto" THEN detect_mode(expression) ELSE mode

\* the method CalculatorEngine.calculate routes to
Route(expression, mode, variables, lib) ==
    CASE mode = "arithmetic" -> arithmetic(expression)
      [] mode = "algebra" -> algebra(expression, lib)
      [] mode = "solve" -> solve_equation(expression, lib)
      [] mode = "derivative" -> derivative(expression, variables, lib)
      [] mode = "integral" -> integral(expression, variables, lib)
      [] OTHER -> Raise("ValueError", "Modo no implementado", mode)

\* CalculatorEngine.calculate from the check of the mode on
Checked(expression, mode, used, variables, lib) ==
    IF ~InList(used, engines.calculate.supported_modes)
    THEN Raise("ValueError", "Modo no soportado", mode)
    ELSE Route(expression, used, variables, lib)

\* CalculatorEngine.calculate: detect the mode if it is "auto", refuse a mode
\* that is not supported, route; every exception is logged and raised again
calculate(expression, mode, variables, lib) ==
    Checked(expression, mode, UsedMode(expression, mode), variables, lib)



(***************************************************************************)
(* POST /calculate.  A client posts a request, the handler answers it, the *)
(* client takes the answer.  The handler is one step: it sanitizes, calls  *)
(* the engine, logs and builds the response, or turns the exception into   *)
(* an HTTPException.                                                       *)
(***************************************************************************)

\* CalculationRequest
CalculationRequest(expression, mode, variables) ==
    [expression |-> expression, mode |-> mode, variables |-> variables]

\* CalculationResponse, sent with status 200
CalculationResponse(original, result, steps, mode, error) ==
    [status |-> 200,
     body |-> [original |-> original, result |-> result, steps |-> steps,
               mode |-> mode, error |-> error]]

\* raise HTTPException(status_code=..., detail=...)
HTTPException(status_code, detail) == [status |-> status_code, body |-> [detail |-> detail]]

GenericMessage == "Ocurrio un error inesperado al procesar la solicitud"

\* except ValueError as e
BadRequest(req, e) ==
    HTTPException(400, [error |-> "Error en la expresion o calculo",
                        message |-> e.message,
                        expression |-> req.expression])

\* except Exception as e
ServerError ==
    HTTPException(500, [error |-> "Error interno del servidor", message |-> GenericMessage])

\* a first except clause that catches every exception
IsException(cls) == TRUE

\* the exception classes the handler's first except clause catches
IsValueError(cls) == cls \in {"ValueError", "ValidationError"}

\* no exception that the code does not raise itself
NoFault == None

\* what the engine call of the handler gives: nothing when the sanitizer raised
NoOutcome == [ok |-> FALSE, cls |-> None, message |-> [kind |-> None, arg |-> <<>>]]

\* calculator.calculate(expression=clean_expression, mode=..., variables=...),
\* clean being what sanitize_expression gave
EngineCall(req, lib, clean) ==
    IF clean.ok THEN calculate(clean.value, req.mode, req.variables, lib) ELSE NoOutcome

\* the exception that leaves the try block of the handler, if any
Raised(clean, outcome, unexpected) ==
    IF ~clean.ok THEN clean
    ELSE IF ~outcome.ok THEN outcome
    ELSE IF unexpected # NoFault THEN Raise(unexpected, "unexpected", <<>>)
    ELSE Return(<<>>)

\* a handler that answers with the mode of the request
RespondEchoingMode(req, e, outcome) ==
    IF e.ok
    THEN CalculationResponse(req.expression, outcome.value.result, outcome.value.steps,
                             req.mode, None)
    ELSE IF IsValueError(e.cls) THEN BadRequest(req, e)
    ELSE ServerError

\* a handler that echoes the sanitized text as 'original'
RespondEchoingClean(req, e, outcome) ==
    IF e.ok
    THEN CalculationResponse(Strip(req.expression), outcome.value.result,
                             outcome.value.steps, outcome.value.mode, None)
    ELSE IF IsValueError(e.cls) THEN BadRequest(req, e)
    ELSE ServerError

\* the handler's answer: e is what left the try block, outcome the
\* result_data of the engine
Respond(req, e, outcome) ==
    IF e.ok
    THEN CalculationResponse(req.expression, outcome.value.result, outcome.value.steps,
                             outcome.value.mode, None)
    ELSE IF IsValueError(e.cls) THEN BadRequest(req, e)
    ELSE ServerError

\* the last record the handler hands to log_calculation
Logged(req, clean, e, outcome) ==
    IF e.ok THEN log_calculation(clean.value, outcome.value.mode, TRUE, NoOutcome.message)
    ELSE log_calculation(req.expression, req.mode, FALSE, e.message)

\* what the engine was called with and what it gave
NoCall ==
    [called |-> FALSE, expression |-> <<>>, mode |-> None, detected |-> None,
     outcome |-> NoOutcome]

Called(req, clean, outcome) ==
    IF clean.ok
    THEN [called |-> TRUE, expression |-> clean.value, mode |-> req.mode,
          detected |-> IF req.mode = "auto" THEN detect_mode(clean.value) ELSE None,
          outcome |-> outcome]
    ELSE NoCall


(***************************************************************************)
(* The requests a client posts and the answers the library gives.          *)
(***************************************************************************)

\* operands up to MaxOperand, and lists of up to MaxSolutions solutions
MaxOperand == 4

MaxSolutions == 2

Operators == { <<"+">>, <<"-">>, <<"*">>, <<"/">>, <<"*", "*">> }

OperandTexts ==
    {NatText(n) : n \in 0..MaxOperand} \cup { <<"1", "2">>, <<"1", "0", "0">> }

\* integers at the edge of what a double holds exactly
LargeTexts == {IntText(WAdd(Two53, ToWide(d))) : d \in {-1, 0, 1, 2}}

Signs == { <<>>, <<"-">> }

Spaces == { <<>>, <<" ">> }

BinaryTexts ==
    {sign \o a \o sp \o op \o sp \o b :
        sign \in Signs, a \in OperandTexts, sp \in Spaces, op \in Operators, b \in OperandTexts}

LargeSums ==
    {a \o <<"+">> \o b : a \in LargeTexts, b \in {NatText(n) : n \in 0..2}}
        \cup {a \o <<"+">> \o b : a \in {NatText(n) : n \in 0..2}, b \in LargeTexts}

\* divisions of a dividend of three or four digits
LongDivisionTexts ==
    { <<"1", "0", "0", "/", "2", "0", "0">>,
      <<"1", "0", "0", "/", "1", "0", "1">>,
      <<"1", "0", "5", "/", "5">>,
      <<"1", "0", "0", "0", "/", "1", "0">>,
      <<"9", "9", "9", "/", "1", "2">> }

\* arithmetic that is no single operation
CompoundTexts ==
    { <<"2", "+", "3", "*", "4">>,
      <<"(", "2", "+", "3", ")", "*", "4">>,
      <<"(", "1", "-", "3", ")", "*", "*", "2">>,
      <<"2", "*", "(", "3", "+", "4", ")", "-", "1">>,
      <<"1", "/", "0", "+", "1">>,
      <<"-", "2", "*", "*", "2">>,
      <<"(", "(", "2", ")", ")">>,
      <<"2">>,
      <<"-", "3">>,
      <<" ", "2", "+", "2", " ">> }

\* texts that do not parse, and texts with commas
BrokenTexts ==
    { <<>>,
      <<" ", " ">>,
      <<"2", "+">>,
      <<"(">>,
      <<"2", " ", "3">>,
      <<"*", "2">>,
      <<",">>,
      <<",", "2">>,
      <<"1", ",", "2">>,
      <<"1", ",", " ", "2">>,
      <<"1", ",", "2", ",", "3">> }

\* expressions with variables
SymbolicTexts ==
    { <<"x">>,
      <<"x", "+", "1">>,
      <<"2", "*", "x">>,
      <<"2", "*", "(", "x", "+", "1", ")">>,
      <<"x", "*", "y">> }

\* texts with an equality sign
EquationTexts ==
    { <<"x", "=", "5">>,
      <<"x", " ", "=", " ", "5">>,
      <<" ", "x", "=", "5">>,
      <<"2", "*", "x", "=", "4">>,
      <<"x", "*", "*", "2", "=", "4">>,
      <<"x", "=", "y">>,
      <<"2", "=", "2">>,
      <<"x", "=", "=", "5">>,
      <<"=", "5">>,
      <<"x", "=">>,
      <<"5", "=", "x">>,
      <<"y", "=", "2">>,
      <<"d", "i", "f", "f", "=", "1">>,
      <<"d", "e", "r", "i", "v", "a", "t", "i", "v", "e", "=", "i", "n", "t", "e", "g", "r", "a", "l">>,
      <<"x", "=", "i", "n", "t", "e", "g", "r", "a", "l">> }

\* texts with the words _detect_mode looks for
KeywordTexts ==
    { <<"d", "i", "f", "f">>,
      <<"d", "i", "f", "f", "e", "r">>,
      <<"d", "e", "r", "i", "v", "a", "t", "i", "v", "e">>,
      <<"i", "n", "t", "e", "g", "r", "a", "l">>,
      <<"i", "n", "t", "e", "g", "r", "a", "t", "e">>,
      <<"i", "n", "t", "e", "g", "r", "a", "l", "s">>,
      <<"D", "I", "F", "F">>,
      <<"D", "i", "f", "f", "e", "r">>,
      <<"I", "N", "T", "E", "G", "R", "A", "L">>,
      <<"d", "/", "d", "x">>,
      <<"d", "/", "d", "x", " ", "x", "*", "*", "2">>,
      <<"X", "/", "D", "/", "d", "X">>,
      <<"i", "n", "t", "e", "g", "r", "a", "l", " ", "d", "i", "f", "f">>,
      <<"d", "i", "f", "f", " ", "i", "n", "t", "e", "g", "r", "a", "l">>,
      <<"x", "*", "d", "e", "r", "i", "v", "a", "t", "i", "v", "e">>,
      <<"2", "*", "i", "n", "t", "e", "g", "r", "a", "l">> }

\* texts a forbidden word is put into
Cores ==
    { <<"2", "+", "2">>,
      <<"x", "=", "1">>,
      <<"1", ",", "2">> }


\* word written in lower case, in upper case, and with a capital
Cases(word) == {word, Upper(word), <<UpperChar(word[1])>> \o Tail(word)}

\* core with word put in after its first p characters
Insert(core, p, word) == Slice(core, 0, p) \o word \o Slice(core, p, Len(core))

ForbiddenTexts ==
    {Insert(core, p, word) :
        core \in Cores, p \in {0, 1, 3},
        word \in UNION {Cases(Forbidden[i]) : i \in 1..Len(Forbidden)}}

Modes ==
    {"auto", "arithmetic", "algebra", "solve", "derivative", "integral", "matrix", None}

VariableSets ==
    { NoVariables,
      Variables(<<>>),
      Variables([k \in {"var"} |-> StrValue(<<"t">>)]),
      Variables([k \in {"var"} |-> NumValue(<<"2">>)]),
      Variables([k \in {"x"} |-> NumValue(<<"2">>)]) }

Requests ==
    {CalculationRequest(e, m, NoVariables) :
        e \in BinaryTexts \cup LargeSums \cup LongDivisionTexts, m \in {"auto", "arithmetic"}}
    \cup {CalculationRequest(e, m, NoVariables) :
        e \in CompoundTexts \cup BrokenTexts \cup SymbolicTexts \cup EquationTexts
                  \cup KeywordTexts,
        m \in Modes}
    \cup {CalculationRequest(e, m, v) :
        e \in {<<"x">>, <<"x", "*", "y">>, <<"2">>, <<"d", "i", "f", "f">>},
        m \in {"auto", "derivative", "integral"}, v \in VariableSets}
    \cup {CalculationRequest(e, m, NoVariables) : e \in ForbiddenTexts, m \in {"auto", "solve"}}

\* the library was not asked
Quiet ==
    [raises |-> FALSE, expandChanges |-> FALSE, simplifyChanges |-> FALSE,
     solutions |-> <<>>, var |-> <<"x">>]

Solutions == {RatV(2, 1), RatV(-2, 1), RatV(1, 3), SymV({<<"y">>})}

RECURSIVE SolutionLists(_)
SolutionLists(n) ==
    IF n = 0 THEN {<<>>}
    ELSE SolutionLists(n - 1)
             \cup {Append(l, v) : l \in {m \in SolutionLists(n - 1) : Len(m) = n - 1},
                                  v \in Solutions}

FirstSymbols == {<<"x">>, <<"y">>}

\* what the library may answer to a request worked in the given mode
Answers(mode) ==
    CASE mode = "solve" ->
            {[Quiet EXCEPT !.raises = TRUE]}
                \cup {[Quiet EXCEPT !.solutions = l, !.var = v] :
                         l \in SolutionLists(MaxSolutions), v \in FirstSymbols}
      [] mode = "algebra" ->
            {[Quiet EXCEPT !.raises = TRUE]}
                \cup {[Quiet EXCEPT !.expandChanges = a, !.simplifyChanges = b] :
                         a \in BOOLEAN, b \in BOOLEAN}
      [] mode = "derivative" ->
            {[Quiet EXCEPT !.raises = TRUE]}
                \cup {[Quiet EXCEPT !.simplifyChanges = b, !.var = v] :
                         b \in BOOLEAN, v \in FirstSymbols}
      [] mode = "integral" ->
            {[Quiet EXCEPT !.raises = TRUE]}
                \cup {[Quiet EXCEPT !.var = v] : v \in FirstSymbols}
      [] OTHER -> {Quiet}

\* the mode the engine works the request in, if the sanitizer lets it through
WorkedAs(mode, clean) == IF clean.ok THEN UsedMode(clean.value, mode) ELSE None

Worked(req) == WorkedAs(req.mode, sanitize_expression(req.expression))

\* an exception the code does not raise itself can only leave the try block
\* where the code raises none
Faults(clean, outcome) ==
    IF clean.ok /\ outcome.ok THEN {NoFault, "MemoryError"} ELSE {NoFault}

(***************************************************************************)
(* POST /validate                                                          *)
(***************************************************************************)

\* ValidationRequest
ValidationRequest(expression, mode) == [expression |-> expression, mode |-> mode]

\* ValidationResponse(valid=..., expression=..., mode=..., error=...): mode is
\* declared 'str', so the constructor raises for None
ValidationResponse(valid, expression, mode, error) ==
    IF mode = None THEN Raise("ValidationError", "mode", <<>>)
    ELSE Return([status |-> 200,
                 body |-> [valid |-> valid, expression |-> expression, mode |-> mode,
                           error |-> error]])

NotParseable == [kind |-> "La expresion no es valida o no se puede parsear", arg |-> <<>>]

NoError == [kind |-> None, arg |-> <<>>]

\* CalculatorEngine.validate_expression from the parse on: True, or False on
\* any exception
IsParsed(parsed) == parsed.ok

\* CalculatorEngine.validate_expression
validate_expression(expression, mode) == IsParsed(sympify(expression))

\* the mode the handler of /validate works with
ValidatedMode(expression, mode) == IF mode = "auto" THEN detect_mode(expression) ELSE mode

\* the return statement of the try block
ValidatedAs(req, clean, mode, is_valid) ==
    IF is_valid THEN ValidationResponse(TRUE, clean, mode, NoError)
    ELSE ValidationResponse(FALSE, req.expression, mode, NotParseable)

\* the try block of the handler
Tried(req, clean) ==
    IF ~clean.ok THEN clean
    ELSE ValidatedAs(req, clean.value, ValidatedMode(clean.value, req.mode),
                     validate_expression(clean.value, req.mode))

\* an exception no except clause of the handler caught: the server answers 500
Uncaught == [status |-> 500, body |-> [detail |-> "Internal Server Error"]]

\* except ValueError as e: the response built there is not guarded
Failed(answer) == IF answer.ok THEN answer.value ELSE Uncaught

\* except Exception as e
ValidationServerError == HTTPException(500, "Error interno en validacion")

\* the handler of /validate from the end of its try block on
Caught(req, tried) ==
    IF tried.ok THEN tried.value
    ELSE IF IsValueError(tried.cls)
    THEN Failed(ValidationResponse(FALSE, req.expression, req.mode, tried.message))
    ELSE ValidationServerError

\* the handler validate_expression of routes/validate.py
Validated(req) == Caught(req, Tried(req, sanitize_expression(req.expression)))

ValidationRequests ==
    {ValidationRequest(e, m) :
        e \in BrokenTexts \cup EquationTexts \cup KeywordTexts
                  \cup {Insert(core, 1, Forbidden[i]) : core \in Cores,
                                                        i \in 1..Len(Forbidden)}
                  \cup Cores \cup {<<"i", "m", "p", "o", "r", "t", " ", "o", "s">>},
        m \in {"auto", "arithmetic", "solve", "matrix", None}}

(***************************************************************************)
(* The rate limiter and the authentication service: module-level objects   *)
(* that no route calls.                                                    *)
(***************************************************************************)

\* RateLimiter(max_requests, window_seconds)
RateLimiter(max_requests, window_seconds) ==
    [max_requests |-> max_requests, window_seconds |-> window_seconds, enabled |-> FALSE]

\* a limiter that refuses once it is enabled
check_rate_limit_enforcing(self, identifier) == ~self.enabled

\* RateLimiter.check_rate_limit: True on both paths
check_rate_limit(self, identifier) == IF ~self.enabled THEN TRUE ELSE TRUE

\* an environment variable that is not set, and one that is
Unset == [set |-> FALSE, value |-> <<>>]

Set(value) == [set |-> TRUE, value |-> value]

\* os.getenv(name, default)
getenv(env, name, default) == IF env[name].set THEN env[name].value ELSE default

\* AuthService(): the attributes __init__ reads from the environment
AuthService(env) ==
    [enabled |-> Lower(getenv(env, "AUTH_ENABLED", <<"f", "a", "l", "s", "e">>))
                     = <<"t", "r", "u", "e">>,
     jwt_secret |-> env["JWT_SECRET"],
     supabase_url |-> env["SUPABASE_URL"],
     supabase_key |-> env["SUPABASE_KEY"]]

\* the Authorization header of a request: absent, or its text
NoHeader == Unset

\* 'not authorization'
IsFalsy(authorization) == ~authorization.set \/ authorization.value = <<>>

Unauthorized ==
    [ok |-> FALSE, cls |-> "HTTPException", status |-> 401,
     detail |-> "No se proporciono token de autenticacion"]

\* a service that lets every request through
verify_token_open(self, authorization) == Return(None)

\* AuthService.verify_token
verify_token(self, authorization) ==
    IF ~self.enabled THEN Return(None)
    ELSE IF IsFalsy(authorization) THEN Unauthorized
    ELSE Return(None)

\* the process environment the application may be started in
Environments ==
    {[AUTH_ENABLED |-> a, JWT_SECRET |-> s, SUPABASE_URL |-> Unset, SUPABASE_KEY |-> Unset] :
        a \in {Unset, Set(<<>>), Set(<<"1">>), Set(<<"f", "a", "l", "s", "e">>),
               Set(<<"t", "r", "u", "e">>), Set(<<"T", "R", "U", "E">>),
               Set(<<"T", "r", "u", "e">>)},
        s \in {Unset, Set(<<"s">>)}}

NoEnvironment ==
    [AUTH_ENABLED |-> Unset, JWT_SECRET |-> Unset, SUPABASE_URL |-> Unset,
     SUPABASE_KEY |-> Unset]

\* limiters as they may be constructed, with the flag as it may be set
RateLimiters ==
    {[RateLimiter(m, w) EXCEPT !.enabled = e] :
        m \in {1, 100}, w \in {1, 60}, e \in BOOLEAN}

Identifiers == {<<"a">>, <<"1", "0", ".", "0", ".", "0", ".", "1">>}

Authorizations ==
    {NoHeader, Set(<<>>), Set(<<"B", "e", "a", "r", "e", "r", " ", "t">>),
     Set(<<"B", "a", "s", "i", "c", " ", "t">>)}

MaxCalls == 3

NoStubCall == [method |-> None, argument |-> <<>>, calls |-> 0, returned |-> Return(None)]

NoRequest == CalculationRequest(<<>>, None, NoVariables)

NoResponse == [status |-> 0, body |-> <<>>]

NoLog == log_calculation(<<>>, None, FALSE, NoOutcome.message)

Init ==
    /\ pc = "idle"
    /\ request = NoRequest
    /\ library = Quiet
    /\ fault = NoFault
    /\ engine = NoCall
    /\ response = NoResponse
    /\ log = NoLog
    /\ engines = [calculate |-> CalculatorEngine, validate |-> CalculatorEngine]
    /\ rate_limiter = RateLimiter(100, 60)
    /\ auth_service = AuthService(NoEnvironment)
    /\ call = NoStubCall

\* a client posts a request to /calculate
Post ==
    /\ pc = "idle"
    /\ \E r \in Requests : request' = r
    /\ pc' = "received"
    /\ UNCHANGED <<library, fault, engine, response, log, engines, rate_limiter,
                   auth_service, call>>

\* the handler from the except clauses on: e is what left the try block
Answer(req, clean, outcome, e) ==
    /\ engine' = Called(req, clean, outcome)
    /\ response' = Respond(req, e, outcome)
    /\ log' = Logged(req, clean, e, outcome)

\* the handler after the engine call
Handled(req, clean, outcome) ==
    \E unexpected \in Faults(clean, outcome) :
        /\ fault' = unexpected
        /\ Answer(req, clean, outcome, Raised(clean, outcome, unexpected))

\* the handler after sanitize_expression
Sanitized(req, lib, clean) ==
    /\ library' = lib
    /\ Handled(req, clean, EngineCall(req, lib, clean))

\* the handler of POST /calculate
Calculate ==
    /\ pc = "received"
    /\ \E lib \in Answers(Worked(request)) :
           Sanitized(request, lib, sanitize_expression(request.expression))
    /\ pc' = "responded"
    /\ engines' = [engines EXCEPT !.calculate = EngineAfter(@)]
    /\ UNCHANGED <<request, rate_limiter, auth_service, call>>

\* a client posts a request to /validate
PostValidate ==
    /\ pc = "idle"
    /\ \E r \in ValidationRequests : request' = r
    /\ pc' = "validating"
    /\ UNCHANGED <<library, fault, engine, response, log, engines, rate_limiter,
                   auth_service, call>>

\* the handler of POST /validate
Validate ==
    /\ pc = "validating"
    /\ response' = Validated(request)
    /\ pc' = "validated"
    /\ engines' = [engines EXCEPT !.validate = EngineAfter(@)]
    /\ UNCHANGED <<request, library, fault, engine, log, rate_limiter, auth_service, call>>

\* the client takes the response
Deliver ==
    /\ pc \in {"responded", "validated"}
    /\ pc' = "idle"
    /\ request' = NoRequest
    /\ library' = Quiet
    /\ fault' = NoFault
    /\ engine' = NoCall
    /\ response' = NoResponse
    /\ log' = NoLog
    /\ UNCHANGED <<engines, rate_limiter, auth_service, call>>

Next == Post \/ Calculate \/ PostValidate \/ Validate \/ Deliver

Spec == Init /\ [][Next]_vars

(***************************************************************************)
(* The methods of the rate limiter and of the authentication service,      *)
(* called directly: no route calls them, so they are applied to every      *)
(* limiter and every service the constructors and the environment give.    *)
(***************************************************************************)

StubInit ==
    /\ pc = "idle"
    /\ request = NoRequest
    /\ library = Quiet
    /\ fault = NoFault
    /\ engine = NoCall
    /\ response = NoResponse
    /\ log = NoLog
    /\ engines = [calculate |-> CalculatorEngine, validate |-> CalculatorEngine]
    /\ rate_limiter \in RateLimiters
    /\ auth_service \in {AuthService(env) : env \in Environments}
    /\ call = NoStubCall

\* await rate_limiter.check_rate_limit(identifier)
CheckRateLimit ==
    /\ call.calls < MaxCalls
    /\ \E identifier \in Identifiers :
           call' = [method |-> "check_rate_limit", argument |-> identifier,
                    calls |-> call.calls + 1,
                    returned |-> Return(check_rate_limit(rate_limiter, identifier))]
    /\ UNCHANGED <<pc, request, library, fault, engine, response, log, engines,
                   rate_limiter, auth_service>>

\* await auth_service.verify_token(authorization)
VerifyToken ==
    /\ call.calls < MaxCalls
    /\ \E authorization \in Authorizations :
           call' = [method |-> "verify_token", argument |-> authorization,
                    calls |-> call.calls + 1,
                    returned |-> verify_token(auth_service, authorization)]
    /\ UNCHANGED <<pc, request, library, fault, engine, response, log, engines,
                   rate_limiter, auth_service>>

StubNext == CheckRateLimit \/ VerifyToken

Stubs == StubInit /\ [][StubNext]_vars



(***************************************************************************)
(* Properties                                                              *)
(***************************************************************************)

Responded == pc = "responded"

\* the engine returned a result for the request
EngineReturned == Responded /\ engine.called /\ engine.outcome.ok

\* some forbidden word occurs in the text, whatever the case of its letters
HasForbidden(text) == \E i \in 1..Len(Forbidden) : Contains(Lower(text), Forbidden[i])

\* C1: in every result the engine returns, whatever the mode and the branch,
\* the step numbers of the steps list strictly increase in list order
StepNumbersIncrease ==
    EngineReturned =>
        \A i \in 1..(Len(engine.outcome.value.steps) - 1) :
            engine.outcome.value.steps[i].step < engine.outcome.value.steps[i + 1].step

\* C1: a solved equation with one solution: steps 1 to 4, the verification
\* numbered 5 and the final step numbered len(steps) + 1
StepNumbersIncreaseWitness ==
    /\ EngineReturned
    /\ engine.outcome.value.mode = "solve"
    /\ Len(engine.outcome.value.steps) = 6
    /\ engine.outcome.value.steps[6].step = 6

\* C2: _detect_mode takes the first check that matches: '=' gives solve;
\* otherwise 'd/dx', 'derivative' or 'diff' in any case give derivative;
\* otherwise 'integral' or 'integrate' give integral; otherwise a text that
\* parses and has free symbols gives algebra; every other text, one that does
\* not parse included, gives arithmetic
DetectModeFirstMatchWins ==
    (Responded /\ engine.called /\ engine.mode = "auto") =>
        LET text == engine.expression
            equation == Contains(text, <<"=">>)
            derivative_word ==
                \/ Contains(Lower(text), <<"d", "/", "d", "x">>)
                \/ Contains(Lower(text), <<"d", "e", "r", "i", "v", "a", "t", "i", "v", "e">>)
                \/ Contains(Lower(text), <<"d", "i", "f", "f">>)
            integral_word ==
                \/ Contains(Lower(text), <<"i", "n", "t", "e", "g", "r", "a", "l">>)
                \/ Contains(Lower(text), <<"i", "n", "t", "e", "g", "r", "a", "t", "e">>)
            symbols ==
                /\ sympify(text).ok
                /\ sympify(text).value.k # "obj"
                /\ sympify(text).value.free # {}
        IN  /\ equation => engine.detected = "solve"
            /\ (~equation /\ derivative_word) => engine.detected = "derivative"
            /\ (~equation /\ ~derivative_word /\ integral_word) => engine.detected = "integral"
            /\ (~equation /\ ~derivative_word /\ ~integral_word /\ symbols)
                   => engine.detected = "algebra"
            /\ (~equation /\ ~derivative_word /\ ~integral_word /\ ~symbols)
                   => engine.detected = "arithmetic"

\* C2: a text with '=' and with a derivative word and an integral word is
\* taken for an equation
DetectModeWitness ==
    /\ Responded /\ engine.called /\ engine.mode = "auto"
    /\ engine.expression = <<"d", "e", "r", "i", "v", "a", "t", "i", "v", "e", "=", "i", "n", "t", "e", "g", "r", "a", "l">>
    /\ engine.detected = "solve"

\* C3: a ValueError of the sanitizer or of the engine ends the request with
\* status 400, the message of the exception and the expression as posted; any
\* other exception ends it with status 500 and the generic message; a request
\* answered with status 200 raised nothing
ErrorsBecomeHttpErrors ==
    Responded =>
        LET clean == sanitize_expression(request.expression)
        IN  /\ ~clean.ok =>
                   /\ response.status = 400
                   /\ response.body.detail.message = clean.message
                   /\ response.body.detail.expression = request.expression
            /\ (engine.called /\ ~engine.outcome.ok) =>
                   /\ engine.outcome.cls = "ValueError"
                   /\ response.status = 400
                   /\ response.body.detail.message = engine.outcome.message
                   /\ response.body.detail.expression = request.expression
            /\ fault # NoFault =>
                   /\ response.status = 500
                   /\ DOMAIN response.body.detail = {"error", "message"}
                   /\ response.body.detail.message = GenericMessage
            /\ response.status = 200 =>
                   clean.ok /\ engine.called /\ engine.outcome.ok /\ fault = NoFault
            /\ response.status \in {200, 400, 500}

\* C3: the engine refused the mode of the request and the answer is a 400
ErrorsBecomeHttpErrorsWitness ==
    /\ Responded /\ engine.called /\ ~engine.outcome.ok
    /\ engine.outcome.message.kind = "Modo no soportado"
    /\ response.status = 400
    /\ response.body.detail.expression = request.expression

\* C4: an expression with a forbidden word in it, in any case and at any
\* position, is answered with an error and the engine is not called
ForbiddenIsRejected ==
    (Responded /\ HasForbidden(request.expression)) =>
        /\ response.status = 400
        /\ ~engine.called

\* C4: EVAL in capitals inside an expression
ForbiddenIsRejectedWitness ==
    /\ Responded
    /\ Contains(request.expression, <<"E", "V", "A", "L">>)
    /\ request.expression[1] = "2"
    /\ response.status = 400
    /\ ~engine.called



\* the engine works the request as an equation and gets as far as the solver
SolverAsked ==
    /\ Responded /\ engine.called
    /\ Worked(request) = "solve"
    /\ ReachesSolve(engine.expression)

RECURSIVE Blanks(_)
Blanks(n) == IF n = 0 THEN <<>> ELSE <<" ">> \o Blanks(n - 1)

ExplanationRaises ==
    /\ Responded /\ engine.called
    /\ Worked(request) = "arithmetic"
    /\ sympify(engine.expression).ok
    /\ detect_operation_type(engine.expression).op # "unknown"
    /\ Len(detect_operation_type(engine.expression).nums) = 2
    /\ ~explain(detect_operation_type(engine.expression).op,
                detect_operation_type(engine.expression).nums).ok

\* C7 as the specification words it: an explanation that raises is reported as
\* an error and never becomes a result
NoRecoveryPath ==
    ExplanationRaises => (~engine.outcome.ok /\ response.status # 200)

\* C7: when the explanation of a simple operation raises, the engine falls
\* back to the compound computation and returns its result, and the answer has
\* status 200
ExplanationFailureFallsBack ==
    ExplanationRaises =>
        /\ engine.outcome.ok
        /\ engine.outcome = arithmetic_compound(engine.expression,
                                                sympify(engine.expression).value)
        /\ engine.outcome.value.mode = "arithmetic"
        /\ engine.outcome.value.steps[1].description = "Expresion original"
        /\ fault = NoFault => response.status = 200

\* C7: 1/0 is answered 200 with what the library evaluates it to
FallBackWitness ==
    /\ ExplanationRaises
    /\ engine.expression = <<"1", "/", "0">>
    /\ response.status = 200
    /\ response.body.result = <<"z", "o", "o">>

\* the text is a+b with a and b written in digits
IsSum(text) ==
    /\ Count(text, "+") = 1
    /\ IsDigit(Split(text, <<"+">>)[1])
    /\ IsDigit(Split(text, <<"+">>)[2])

\* C8: a+b in arithmetic mode, a and b non-negative integers, is explained as a
\* simple addition in three steps and its result is the decimal text of a+b
AdditionIsExact ==
    (Responded /\ engine.called /\ engine.mode = "arithmetic" /\ IsSum(engine.expression)) =>
        /\ engine.outcome.ok
        /\ engine.outcome.value.mode = "arithmetic"
        /\ Len(engine.outcome.value.steps) = 3
        /\ engine.outcome.value.steps[1].description = "Que significa sumar"
        /\ engine.outcome.value.result
               = IntText(WAdd(DigitsValue(Split(engine.expression, <<"+">>)[1]),
                              DigitsValue(Split(engine.expression, <<"+">>)[2])))

\* C8: the sum of 2^53 and 1 comes back as 2^53
AdditionRounded ==
    /\ Responded /\ engine.called /\ engine.mode = "arithmetic"
    /\ engine.expression = <<"9", "0", "0", "7", "1", "9", "9", "2", "5", "4", "7", "4", "0", "9", "9", "2", "+", "1">>
    /\ response.status = 200
    /\ response.body.result = <<"9", "0", "0", "7", "1", "9", "9", "2", "5", "4", "7", "4", "0", "9", "9", "2">>

\* texts separated by a comma and a space
RECURSIVE CommaSeparated(_)
CommaSeparated(texts) ==
    IF Len(texts) = 1 THEN texts[1]
    ELSE texts[1] \o <<",", " ">> \o CommaSeparated(Tail(texts))

\* C9: the result of solve mode for the variable v: one solution s gives
\* 'v = format_number(s)' and a verification step numbered 5, two or more give
\* 'v = {s1, s2, ...}', 'x=5' gives 'x = 5', and the expression of the last
\* step is the result
SolveResultText ==
    (EngineReturned /\ engine.outcome.value.mode = "solve") =>
        LET v == SolvedFor(engine.expression, library)
            sols == Solved(engine.expression, library)
            texts == [i \in 1..Len(sols) |-> format_number(sols[i])]
            result == engine.outcome.value.result
            steps == engine.outcome.value.steps
        IN  /\ Len(sols) = 1 =>
                   /\ result = v \o <<" ", "=", " ">> \o texts[1]
                   /\ \E i \in 1..Len(steps) :
                          /\ steps[i].step = 5
                          /\ steps[i].description = "Verificar la solucion"
            /\ Len(sols) >= 2 =>
                   result = v \o <<" ", "=", " ", "{">> \o CommaSeparated(texts) \o <<"}">>
            /\ steps[Len(steps)].expression = result
            /\ engine.expression = <<"x", "=", "5">> => result = <<"x", " ", "=", " ", "5">>

\* C9: an equation with the two solutions 2 and -2
SolveResultWitness ==
    /\ EngineReturned
    /\ engine.outcome.value.mode = "solve"
    /\ engine.expression = <<"x", "*", "*", "2", "=", "4">>
    /\ engine.outcome.value.result = <<"x", " ", "=", " ", "{", "2", ",", " ", "-", "2", "}">>

\* C10: the mode of a response with status 200 is the mode the engine worked
\* in: one of the five, never 'auto'; the detected one when the request says
\* 'auto', else the requested one, and arithmetic for an algebra request
\* without variables
ModeIsTheModeUsed ==
    (Responded /\ response.status = 200) =>
        LET used == IF request.mode = "auto" THEN engine.detected ELSE request.mode
        IN  /\ response.body.mode
                   \in {"arithmetic", "algebra", "solve", "derivative", "integral"}
            /\ response.body.mode # "auto"
            /\ response.body.mode =
                   (IF used = "algebra" /\ sympify(engine.expression).value.free = {}
                    THEN "arithmetic" ELSE used)

\* C10: a request in mode 'auto' answered in mode 'derivative'
ModeWitness ==
    /\ Responded /\ response.status = 200
    /\ request.mode = "auto"
    /\ response.body.mode = "derivative"

\* C11: the 'original' of a response with status 200 is the expression of the
\* request as it was posted, the whitespace around it included, while the
\* engine and the success record of the log got the text without it
OriginalIsEchoed ==
    (Responded /\ response.status = 200) =>
        /\ response.body.original = request.expression
        /\ engine.called
        /\ engine.expression = Strip(request.expression)
        /\ log.success
        /\ log.expression = Strip(request.expression)

\* C11: ' 2+2 ' is echoed with its spaces and computed without them
OriginalWitness ==
    /\ Responded /\ response.status = 200
    /\ request.expression = <<" ", "2", "+", "2", " ">>
    /\ response.body.original = <<" ", "2", "+", "2", " ">>
    /\ engine.expression = <<"2", "+", "2">>
    /\ log.expression = <<"2", "+", "2">>

\* the text with every one-letter name that is a key of the mapping replaced by
\* the value given for it
Substituted(text, map) ==
    Concat([i \in 1..Len(text) |->
                IF text[i] \in DOMAIN map THEN map[text[i]].text ELSE <<text[i]>>])

\* the request gives a value for a variable that occurs in the expression
GivesValue ==
    /\ request.variables.given
    /\ \E k \in DOMAIN request.variables.map : Contains(engine.expression, <<k>>)

\* C12: when the request gives values for variables of the expression, the
\* result is the result for the expression with the values put in their place
VariablesAreSubstituted ==
    (EngineReturned /\ GivesValue) =>
        LET expected == calculate(Substituted(engine.expression, request.variables.map),
                                  engine.mode, NoVariables, library)
        IN  /\ expected.ok
            /\ engine.outcome.value.result = expected.value.result

\* C12: 'x' with the value 2 given for x is answered with the text of x, as
\* an algebraic expression
VariablesIgnored ==
    /\ Responded /\ response.status = 200
    /\ request.expression = <<"x">>
    /\ request.mode = "auto"
    /\ request.variables = Variables([k \in {"x"} |-> NumValue(<<"2">>)])
    /\ response.body.mode = "algebra"
    /\ response.body.result = StrOf(SymV({<<"x">>}))

\* the descriptions of the steps that only _arithmetic_compound,
\* _generate_calculation_steps, _explain_division and _explain_power build,
\* each with a rendering
RenderedDescriptions ==
    { "Expresion original", "Expresion", "Resultado", "Orden de operaciones (PEMDAS)",
      "Resolver parentesis", "Resolver paso a paso",
      "Que significa dividir", "Que es", "Resolver la division", "Verificar el resultado",
      "Que significa una potencia", "Representar como multiplicacion", "Calcular la potencia" }

\* C13: a step the engine builds with a rendering of its expression carries the
\* rendering in the step record the caller gets
RenderingIsCarried ==
    (Responded /\ response.status = 200) =>
        \A i \in 1..Len(response.body.steps) :
            response.body.steps[i].description \in RenderedDescriptions =>
                "expression_latex" \in DOMAIN response.body.steps[i]

\* C13: the steps of the compound explanation of '2+3*4' come back with the
\* declared fields only
RenderingDropped ==
    /\ Responded /\ response.status = 200
    /\ request.expression = <<"2", "+", "3", "*", "4">>
    /\ response.body.steps[1].description = "Expresion original"
    /\ \A i \in 1..Len(response.body.steps) :
           DOMAIN response.body.steps[i] = {"step", "description", "expression"}

(***************************************************************************)
(* C14  POST /validate answers every known validation failure with a body  *)
(* and not with an HTTP error: an expression the sanitizer rejects or that *)
(* does not parse gives status 200 with valid = false, an error text and   *)
(* the expression of the request; valid = true is answered only for an     *)
(* expression the sanitizer accepts and that parses, with no error and the *)
(* sanitized text.                                                         *)
(***************************************************************************)
Accepted(clean) == clean.ok /\ validate_expression(clean.value, "auto")

ValidationFailureIsABody ==
    pc = "validated" =>
        LET accepted == Accepted(sanitize_expression(request.expression))
        IN  /\ ~accepted =>
                   /\ response.status = 200
                   /\ ~response.body.valid
                   /\ response.body.error.kind # None
                   /\ response.body.expression = request.expression
            /\ (response.status = 200 /\ response.body.valid) =>
                   /\ accepted
                   /\ response.body.error = NoError
                   /\ response.body.expression = Strip(request.expression)

\* 'import os' sent to /validate with "mode": null is answered with status 500
ValidationFailureIsAnError ==
    /\ pc = "validated"
    /\ request = ValidationRequest(<<"i", "m", "p", "o", "r", "t", " ", "o", "s">>, None)
    /\ ~sanitize_expression(request.expression).ok
    /\ response = Uncaught

(***************************************************************************)
(* C15  No request to /calculate or /validate changes state that another   *)
(* request reads: every step leaves the two module-level engines (their    *)
(* supported_modes), the rate limiter and the authentication service as    *)
(* they were.  The handlers are coroutines without an await, so requests   *)
(* are served one whole handler after the other.                           *)
(***************************************************************************)
SharedStateIsUntouched ==
    [][/\ engines' = engines
       /\ rate_limiter' = rate_limiter
       /\ auth_service' = auth_service]_vars

\* a request in a mode the engine's list lacks has been refused, and one has
\* been validated, with the engines as constructed
SharedStateWitness ==
    /\ pc \in {"responded", "validated"}
    /\ pc = "responded" => (request.mode = "matrix" /\ response.status = 400)
    /\ pc = "validated" => (request.mode = "auto" /\ response.status = 200)
    /\ engines = [calculate |-> CalculatorEngine, validate |-> CalculatorEngine]
    /\ rate_limiter = RateLimiter(100, 60)

(***************************************************************************)
(* C16  The rate limiter does nothing: check_rate_limit returns True for   *)
(* every identifier, after any number of calls, whether the limiter's      *)
(* 'enabled' flag is false or true, and no call changes the limiter.       *)
(***************************************************************************)
RateLimiterAlwaysAllows ==
    /\ [](call.method = "check_rate_limit" => call.returned = Return(TRUE))
    /\ [][rate_limiter' = rate_limiter]_vars

\* an enabled limiter of one request per window has allowed more calls than that
RateLimiterWitness ==
    /\ call.method = "check_rate_limit"
    /\ rate_limiter.enabled
    /\ rate_limiter.max_requests = 1
    /\ call.calls > rate_limiter.max_requests
    /\ call.returned = Return(TRUE)

(***************************************************************************)
(* C17  verify_token never rejects a request: it returns None without      *)
(* raising for every Authorization header, present or absent, and for      *)
(* every environment, AUTH_ENABLED=true included.                          *)
(***************************************************************************)
TokenNeverRejected == call.method = "verify_token" => call.returned = Return(None)

\* C17 as the code has it: verify_token raises HTTPException 401 exactly when
\* the service is enabled and the Authorization header is absent or empty, and
\* returns None otherwise; the service is enabled exactly when AUTH_ENABLED is
\* set to 'true' in any letter case
TokenRejectedOnlyWithoutHeader ==
    /\ call.method = "verify_token" =>
           call.returned = IF auth_service.enabled /\ IsFalsy(call.argument)
                           THEN Unauthorized ELSE Return(None)
    /\ \A env \in Environments :
           AuthService(env).enabled <=>
               /\ env["AUTH_ENABLED"].set
               /\ env["AUTH_ENABLED"].value \in Cases(<<"t", "r", "u", "e">>)

\* an enabled service has refused a request without an Authorization header
TokenRejected ==
    /\ call.method = "verify_token"
    /\ auth_service.enabled
    /\ call.argument = NoHeader
    /\ call.returned = Unauthorized

(***************************************************************************)
(* C18  For every expression worked in arithmetic mode that                *)
(* _detect_operation_type classifies as a simple operation of two          *)
(* operands, an operand with a leading minus sign included, the result of  *)
(* the detailed explanation is the value of the parsed expression, the     *)
(* result _arithmetic_compound gives for the same text.                    *)
(***************************************************************************)
ParsedResult(parsed) == IF parsed.ok THEN Evaluated(parsed.value) ELSE <<>>

IsSimple(expression) == Explained(detect_operation_type(expression)).ok

DetailedIsParsedValue ==
    (/\ pc = "responded"
     /\ response.status = 200
     /\ response.body.mode = "arithmetic"
     /\ IsSimple(Strip(request.expression)))
        => response.body.result = ParsedResult(sympify(Strip(request.expression)))

\* '-2**2' is explained as the power of -2 and 2 and answered with '4'; the
\* parsed expression is -(2**2), of value -4
DetailedIsNotParsedValue ==
    /\ pc = "responded"
    /\ request.expression = <<"-", "2", "*", "*", "2">>
    /\ request.mode = "arithmetic"
    /\ detect_operation_type(request.expression).op = "power"
    /\ response.status = 200
    /\ response.body.result = <<"4">>
    /\ ParsedResult(sympify(request.expression)) = <<"-", "4">>

(***************************************************************************)
(* C19  In the compound arithmetic explanation, the expression shown in a  *)
(* 'resolve parentheses' step has the value of the original expression:    *)
(* putting the evaluated number in the place of each innermost group keeps *)
(* the value, also when the number is negative and stands next to '**'.    *)
(***************************************************************************)
ParenthesesSteps(steps) ==
    {i \in DOMAIN steps : steps[i].description = StageDescriptions[1]}

ParenthesesStepKeepsValue ==
    (pc = "responded" /\ response.status = 200 /\ response.body.mode = "arithmetic")
        => \A i \in ParenthesesSteps(response.body.steps) :
               ParsedResult(sympify(response.body.steps[i].expression))
                   = ParsedResult(sympify(Strip(request.expression)))

\* '(1-3)**2', of value 4, is shown as '-2**2', of value -4
ParenthesesStepChangesValue ==
    /\ pc = "responded"
    /\ request.expression = <<"(", "1", "-", "3", ")", "*", "*", "2">>
    /\ response.status = 200
    /\ response.body.result = <<"4">>
    /\ \E i \in ParenthesesSteps(response.body.steps) :
           /\ response.body.steps[i].expression = <<"-", "2", "*", "*", "2">>
           /\ ParsedResult(sympify(response.body.steps[i].expression)) = <<"-", "4">>

(***************************************************************************)
(* C20  For an integer dividend of 100 or more and an integer divisor of 1 *)
(* or more, the quotient text _explain_long_division builds digit by digit *)
(* (the expression of its 'Proceso detallado' step) is the decimal text of *)
(* dividend // divisor, also when the divisor is larger than the dividend  *)
(* and when digits of the quotient are 0.                                  *)
(***************************************************************************)
LongDivisionSteps(steps) == {i \in DOMAIN steps : steps[i].description = "Proceso detallado"}

FloorQuotient(detected) == NatText(ToInt(detected.nums[1].w) \div ToInt(detected.nums[2].w))

QuotientTextIsFloorDivision ==
    (pc = "responded" /\ response.status = 200 /\ response.body.mode = "arithmetic")
        => \A i \in LongDivisionSteps(response.body.steps) :
               response.body.steps[i].expression
                   = FloorQuotient(detect_operation_type(Strip(request.expression)))

\* 100/200: the quotient text is empty, and 100 // 200 is 0
QuotientTextIsEmpty ==
    /\ pc = "responded"
    /\ request.expression = <<"1", "0", "0", "/", "2", "0", "0">>
    /\ response.status = 200
    /\ \E i \in LongDivisionSteps(response.body.steps) :
           response.body.steps[i].expression = <<>>
    /\ FloorQuotient(detect_operation_type(request.expression)) = <<"0">>

(***************************************************************************)
(* C21  The steps of a compound arithmetic expression carry out the        *)
(* multiplications and divisions, then the additions and subtractions:     *)
(* when the expression has such operators, the explanation has a 'resolve  *)
(* multiplication/division' step (respectively a 'resolve                  *)
(* addition/subtraction' step) before the step of the final result.        *)
(***************************************************************************)
StepsDescribed(steps, description) == {i \in DOMAIN steps : steps[i].description = description}

HasAny(text, chars) == \E i \in 1..Len(text) : text[i] \in chars

IsCompoundAnswer ==
    /\ pc = "responded"
    /\ response.status = 200
    /\ response.body.mode = "arithmetic"
    /\ StepsDescribed(response.body.steps, "Orden de operaciones (PEMDAS)") # {}

OperationsAreCarriedOut ==
    IsCompoundAnswer =>
        /\ HasAny(request.expression, {"*", "/"}) =>
               \E i \in StepsDescribed(response.body.steps, StageDescriptions[2]) :
                   i < Len(response.body.steps)
        /\ HasAny(request.expression, {"+", "-"}) =>
               \E i \in StepsDescribed(response.body.steps, StageDescriptions[3]) :
                   i < Len(response.body.steps)

\* '2+3*4' is answered with the original, the order of operations and the
\* final result, and with no step that carries out an operation
OperationsAreNotCarriedOut ==
    /\ IsCompoundAnswer
    /\ request.expression = <<"2", "+", "3", "*", "4">>
    /\ response.body.result = <<"1", "4">>
    /\ Len(response.body.steps) = 3
    /\ StepsDescribed(response.body.steps, StageDescriptions[2]) = {}
    /\ StepsDescribed(response.body.steps, StageDescriptions[3]) = {}

(***************************************************************************)
(* C22  An expression without free variables sent in algebra mode is       *)
(* redirected to arithmetic: the answer has the result and the steps of    *)
(* the same expression sent in arithmetic mode, and its mode is            *)
(* 'arithmetic'; with a free variable the mode of the answer is 'algebra'  *)
(* and it has at least three steps.                                        *)
(***************************************************************************)
SameAnswer(body, outcome) ==
    /\ outcome.ok
    /\ body.result = outcome.value.result
    /\ body.steps = outcome.value.steps
    /\ body.mode = outcome.value.mode

AlgebraAnswer(clean, parsed) ==
    IF parsed.value.free = {}
    THEN /\ response.status = 200 =>
                /\ SameAnswer(response.body,
                              calculate(clean, "arithmetic", request.variables, library))
                /\ response.body.mode = "arithmetic"
         /\ fault = NoFault =>
                (response.status = 200
                    <=> calculate(clean, "arithmetic", request.variables, library).ok)
    ELSE response.status = 200 =>
             /\ response.body.mode = "algebra"
             /\ Len(response.body.steps) >= 3

IsExpression(parsed) == parsed.ok /\ parsed.value.k # "obj"

AlgebraWithoutVariablesIsArithmetic ==
    (/\ pc = "responded"
     /\ request.mode = "algebra"
     /\ sanitize_expression(request.expression).ok
     /\ IsExpression(sympify(Strip(request.expression))))
        => AlgebraAnswer(Strip(request.expression), sympify(Strip(request.expression)))

\* '2+3*4' sent in algebra mode is answered in mode 'arithmetic' with '14'
AlgebraRedirected ==
    /\ pc = "responded"
    /\ request.mode = "algebra"
    /\ request.expression = <<"2", "+", "3", "*", "4">>
    /\ response.status = 200
    /\ response.body.mode = "arithmetic"
    /\ response.body.result = <<"1", "4">>
    /\ Len(response.body.steps) = 3

(***************************************************************************)
(* C23  In arithmetic mode the engine fails exactly when the expression    *)
(* does not parse: for every expression that parses, _arithmetic returns   *)
(* a result of mode 'arithmetic' with at least two steps, whatever is      *)
(* raised while the explanation is built, and for an expression that does  *)
(* not parse it raises ValueError.                                         *)
(***************************************************************************)
WorkedArithmetic ==
    /\ pc = "responded"
    /\ engine.called
    /\ UsedMode(engine.expression, engine.mode) = "arithmetic"

ArithmeticOutcome(outcome, parses) ==
    /\ outcome.ok <=> parses
    /\ outcome.ok => (outcome.value.mode = "arithmetic" /\ Len(outcome.value.steps) >= 2)
    /\ ~outcome.ok => outcome.cls = "ValueError"

ArithmeticFailsOnlyOnParse ==
    WorkedArithmetic => ArithmeticOutcome(engine.outcome, IsParsed(sympify(engine.expression)))

\* '3/0': the explanation of the division raises ZeroDivisionError, and the
\* engine returns a result of at least two steps all the same
ArithmeticSurvivesExplanation ==
    /\ WorkedArithmetic
    /\ engine.expression = <<"3", "/", "0">>
    /\ ~explain_division(IntV(ToWide(3)), IntV(ToWide(0))).ok
    /\ engine.outcome.ok
    /\ engine.outcome.value.mode = "arithmetic"
    /\ Len(engine.outcome.value.steps) >= 2
    /\ response.status = 200

(***************************************************************************)
(* C24  When POST /validate answers valid = true for an expression and a   *)
(* mode, POST /calculate with the same expression and mode is not          *)
(* answered with HTTP 400; /validate never answers valid = true for a mode *)
(* that is not supported or for a solve-mode expression without '='.       *)
(***************************************************************************)
AnswerOf(req, clean, outcome) == Respond(req, Raised(clean, outcome, NoFault), outcome)

\* what /calculate answers to the request, the library raising nothing
CalculateAnswers(req) ==
    {AnswerOf(req, sanitize_expression(req.expression),
              EngineCall(req, lib, sanitize_expression(req.expression))) :
        lib \in {l \in Answers(Worked(req)) : ~l.raises}}

AnsweredValid == pc = "validated" /\ response.status = 200 /\ response.body.valid

ValidIsCalculable ==
    AnsweredValid =>
        /\ \A a \in CalculateAnswers(CalculationRequest(request.expression, request.mode,
                                                        NoVariables)) : a.status # 400
        /\ InList(request.mode, supported_modes)
        /\ request.mode = "solve" => Contains(request.expression, <<"=">>)

\* '2+2' in mode 'matrix' is answered valid = true, and /calculate answers 400
ValidIsRefused ==
    /\ AnsweredValid
    /\ request = ValidationRequest(<<"2", "+", "2">>, "matrix")
    /\ response.body.mode = "matrix"
    /\ \A a \in CalculateAnswers(CalculationRequest(request.expression, request.mode,
                                                    NoVariables)) : a.status = 400

(***************************************************************************)
(* C25  Every expression POST /calculate solves, in any mode, solve mode   *)
(* for an equation 'lhs = rhs' included, is answered valid = true by       *)
(* POST /validate for the same expression and mode.                        *)
(***************************************************************************)
IsValid(answer) == answer.status = 200 /\ answer.body.valid

CalculatedIsValid ==
    (pc = "responded" /\ response.status = 200)
        => IsValid(Validated(ValidationRequest(request.expression, request.mode)))

\* 'x=5' is solved in solve mode, and /validate answers valid = false for it
SolvedIsInvalid ==
    /\ pc = "responded"
    /\ request.expression = <<"x", "=", "5">>
    /\ request.mode = "solve"
    /\ response.status = 200
    /\ response.body.result = <<"x", " ", "=", " ", "5">>
    /\ Validated(ValidationRequest(request.expression, request.mode)).status = 200
    /\ ~Validated(ValidationRequest(request.expression, request.mode)).body.valid

(***************************************************************************)
(* C26  Every expression with a comma is refused by sanitize_expression    *)
(* with a ValueError, so that no text with a comma reaches the engine,     *)
(* also when the comma leads or trails or when only one part is not empty. *)
(***************************************************************************)
HasComma(text) == Contains(text, <<",">>)

CommaIsRefused ==
    (pc = "responded" /\ HasComma(request.expression))
        => /\ ~sanitize_expression(request.expression).ok
           /\ sanitize_expression(request.expression).cls = "ValueError"
           /\ ~engine.called

\* ',2' passes the sanitizer: the engine is called with it and fails to parse it
CommaReachesEngine ==
    /\ pc = "responded"
    /\ request.expression = <<",", "2">>
    /\ request.mode = "arithmetic"
    /\ sanitize_expression(request.expression) = Return(<<",", "2">>)
    /\ engine.called
    /\ HasComma(engine.expression)
    /\ ~engine.outcome.ok
    /\ response.status = 400


=============================================================================
